---- MODULE Spec2Model ----
(***************************************************************************)
(* Verification model of the log-retrieval workflow.                       *)
(*                                                                         *)
(*   Spec         process_servers_logs of get-log.py: the per-server loop, *)
(*                the budget check, the intermediate flush, the final      *)
(*                archive and the cleanup of /tmp.                         *)
(*   SpecHandler  lambda_handler of get-log.py and of approve.py: the      *)
(*                stages, the exception handlers and the failure           *)
(*                notification.                                            *)
(*   SpecDownload download_logs_from_server of get-log.py: the connection  *)
(*                retries, the worker pool and the per-file retries of     *)
(*                download_single_file_with_retry.                         *)
(*                                                                         *)
(* Sizes are counted in GiB: lambda_storage_limit is 8 (8 * 1024^3 bytes). *)
(* A downloaded file is identified by <<host index, path index>>; its      *)
(* local temp path is unique (uuid prefix), so the identity stands for the *)
(* temp path too.  Lists whose order no code ever inspects                 *)
(* (downloaded_files, all_downloaded_files) are kept as sets of files.     *)
(***************************************************************************)
EXTENDS Integers, Sequences, FiniteSets, TLC

\* ---------------------------------------------------------------- bounds
MaxServers == 3
MaxPaths == 2
MaxDay == 2
FileSizes == {4, 6}

\* ------------------------------------------------------------- constants
lambda_storage_limit == 8

VARIABLES
    \* ----- process_servers_logs (get-log.py)
    servers,                \* input: servers[h][k] = size of the k-th file the transfer of
                            \* host h yields when it succeeds (paths whose download fails
                            \* are skipped by download_logs_from_server and never seen here)
    password,               \* str(uuid.uuid4()).replace('-', '')[:10]
    uuid_calls,             \* number of uuid.uuid4() calls made for passwords so far
    hostIdx,                \* position of the for-loop over servers.items()
    pc,                     \* control point of process_servers_logs
    downloaded_files,       \* what process_single_server returned for the current host
    all_downloaded_files,   \* the un-flushed batch
    current_storage_usage,
    zip_files,              \* names of the published archives, in order
    part_number,
    tmp_files,              \* downloaded temp files present in /tmp
    tmp_zips,               \* zip files present in /tmp: name -> [files written, complete]
    \* ----- history of the job (observations, never read by the code)
    uploaded,               \* sequence of [name, files, password] of every successful upload
    returned_files,         \* every file any process_single_server call returned
    server_ok,              \* hosts whose process_single_server returned
    server_failed,          \* hosts whose process_single_server raised
    failures,               \* archive / upload failures seen: subset of {"zip", "upload"}
    trigger_largest         \* largest file of the host whose check last updated the counter

VARIABLES
    \* ----- lambda_handler (get-log.py, approve.py)
    handler,                \* which lambda runs: "get_log" or "approve"
    hpc,                    \* stage of the handler
    from_date, to_date,     \* the requested period, as day numbers
    ev_source, ev_subject,  \* mail.source / commonHeaders.subject of the SES event
    n_hosts,                \* number of hosts in config["servers"]
    sender_email,           \* approve.py local, "None" until parsed
    mail_subject,           \* approve.py local, "None" until parsed
    error,                  \* the exception that reached the handler's except clause
    notify_calls,           \* call_teams_api calls made for the failure notification
    notify_failed,          \* TRUE when such a call failed
    result,                 \* what lambda_handler returned
    contacted,              \* hosts to which an SSH connection was attempted
    approval_sent,          \* the approval request reached the approvers
    acceptance_sent         \* the acceptance notification reached the requester

handlerVars == <<handler, hpc, from_date, to_date, ev_source, ev_subject, n_hosts,
                 sender_email, mail_subject, error, notify_calls, notify_failed,
                 result, contacted, approval_sent, acceptance_sent>>

VARIABLES
    \* ----- download_logs_from_server / download_single_file_with_retry (get-log.py)
    dl_paths,               \* input: dl_paths[k] = size of the remote file of path k
    dl_pc,                  \* control point of download_logs_from_server
    attempt,                \* connection attempt, 0-based
    retry_delay,            \* connection retry delay in seconds
    sleeps,                 \* the time.sleep calls of the connection loop, in order
    f_state,                \* per path: state of its future
    f_attempt,              \* per path: attempt of download_single_file_with_retry, 0-based
    dl_tmp,                 \* temp files of this host present in /tmp
    dl_downloaded_files,    \* downloaded_files, in completion order
    total_storage_used,
    sftp_ok,                \* history: paths for which one sftp.get succeeded
    connects                \* history: outcome of every ssh.connect call, in order

dlVars == <<dl_paths, dl_pc, attempt, retry_delay, sleeps, f_state, f_attempt, dl_tmp,
            dl_downloaded_files, total_storage_used, sftp_ok, connects>>

jobVars == <<servers, password, uuid_calls, hostIdx, pc, downloaded_files, all_downloaded_files,
             current_storage_usage, zip_files, part_number, tmp_files, tmp_zips,
             uploaded, returned_files, server_ok, server_failed, failures,
             trigger_largest>>

VARIABLES
    \* ----- expand_log_paths (get-log.py and the two older handlers)
    ex_impl,                \* which of the three definitions runs
    ex_pc,                  \* control point
    ex_log_paths,           \* argument log_paths: templates, each a sequence of tokens
    ex_from_date,           \* argument from_date as the caller passed it
    ex_to_date,             \* argument to_date, NoDate when absent
    ex_current,             \* the loop variable of the while loop
    ex_i,                   \* index of the template the for loop is at
    ex_pattern,             \* index in date_patterns of the matched placeholder
    expanded_paths,         \* the result list
    ex_origin               \* history: template and day of every appended path

expandVars == <<ex_impl, ex_pc, ex_log_paths, ex_from_date, ex_to_date, ex_current, ex_i,
                ex_pattern, expanded_paths, ex_origin>>

VARIABLES
    \* ----- extract_and_validate_approval_data / extract_log_period (approve.py)
    xp_pc,                  \* control point
    xp_body,                \* the mail body after the period marker, as pieces of text
    xp_reason,              \* what extract_reason returns, "" when there is none
    xp_sender,              \* argument sender
    xp_now,                 \* datetime.now() of the invocation
    period_section,         \* the body up to the next marker
    xp_k,                   \* index in date_patterns of the next pass
    found_dates,            \* the list of (match_text, date_type, match_pos)
    xp_warnings,            \* number of logger.warning calls about multiple dates
    xp_period,              \* what extract_log_period returned or raised
    xp_result               \* what extract_and_validate_approval_data returned or raised

extractVars == <<xp_pc, xp_body, xp_reason, xp_sender, xp_now, period_section, xp_k,
                 found_dates, xp_warnings, xp_period, xp_result>>

\* get_ssh_auth
VARIABLES
    ky_pc,            \* position in get_ssh_auth
    ky_credentials,   \* the credentials dict, with what each parser makes of the key text
    ky_i,             \* the parser that is tried next
    ky_tried,         \* the parsers called so far, in call order
    ky_result         \* the return value or the exception

keyVars == <<ky_pc, ky_credentials, ky_i, ky_tried, ky_result>>

\* create_mailto_link and extract_json_from_email
VARIABLES
    ml_pc,            \* position in the exchange
    approval_data,    \* the ApprovalData given to create_mailto_link
    ml_around,        \* the text the sender's mail has before and after the draft
    ml_body,          \* body: json.dumps(body_json)
    mailto_link,      \* the link of the approval mail
    mail_body,        \* the body of the reply
    start_idx,        \* extract_json_from_email: index of the first brace
    ml_i,             \* extract_json_from_email: loop index
    brace_count,      \* extract_json_from_email: open braces
    end_idx,          \* extract_json_from_email: index of the closing brace
    ml_result         \* the dict returned or the APIException

mailVars == <<ml_pc, approval_data, ml_around, ml_body, mailto_link, mail_body,
              start_idx, ml_i, brace_count, end_idx, ml_result>>

vars == <<jobVars, handlerVars, dlVars, expandVars, extractVars, keyVars, mailVars>>

\* --------------------------------------------------------------- helpers
RECURSIVE SeqsUpTo(_, _)
SeqsUpTo(S, n) ==
    IF n = 0 THEN {<<>>}
    ELSE LET shorter == SeqsUpTo(S, n - 1)
         IN shorter \cup {Append(s, x) : s \in {t \in shorter : Len(t) = n - 1}, x \in S}

\* The order of the files a host yields is never inspected, so each
\* multiset of sizes is enumerated once, as a non-decreasing list.
HostFileLists ==
    {q \in SeqsUpTo(FileSizes, MaxPaths) : \A i \in 1..(Len(q) - 1) : q[i] <= q[i + 1]}

\* uuid.uuid4(): the n-th call yields a token no other call yields
Token(n) == <<"uuid", n>>

Max(a, b) == IF a >= b THEN a ELSE b

FilesOfHost(h) == {<<h, k>> : k \in 1..Len(servers[h])}

file_size(f) == servers[f[1]][f[2]]

RECURSIVE SumSizes(_)
SumSizes(F) ==
    IF F = {} THEN 0
    ELSE LET f == CHOOSE x \in F : TRUE
         IN file_size(f) + SumSizes(F \ {f})

RECURSIVE LargestSize(_)
LargestSize(F) ==
    IF F = {} THEN 0
    ELSE LET f == CHOOSE x \in F : TRUE
         IN Max(file_size(f), LargestSize(F \ {f}))

PartName(n) == [kind |-> "part", n |-> n]
SingleName == [kind |-> "single", n |-> 0]

\* total_storage_used returned by download_logs_from_server
storage_used == SumSizes(downloaded_files)

\* os.walk('/tmp'): every file present, temp files and zip files alike.
\* A zip is counted with the size of what was written to it.
RECURSIVE ZipBytes(_, _)
ZipBytes(zips, names) ==
    IF names = {} THEN 0
    ELSE LET z == CHOOSE x \in names : TRUE
         IN SumSizes(zips[z].files) + ZipBytes(zips, names \ {z})

get_actual_tmp_usage(files, zips) == SumSizes(files) + ZipBytes(zips, DOMAIN zips)

\* cleanup_temp_files: os.remove of every local_path of the list
cleanup_temp_files(files, batch) == files \ batch

\* os.remove(zip_path)
RemoveZip(zips, name) == [z \in (DOMAIN zips) \ {name} |-> zips[z]]

\* pyzipper.AESZipFile(zip_path, 'w'): creates or overwrites the file
WriteZip(zips, name, files, complete) ==
    [z \in (DOMAIN zips) \cup {name} |->
        IF z = name THEN [files |-> files, complete |-> complete] ELSE zips[z]]

\* what a failing create_part_zip / create_single_zip may leave behind:
\* nothing (the open failed) or a truncated file (a write failed)
AfterFailedZip(zips, name) == {zips, WriteZip(zips, name, {}, FALSE)}

\* the check without the incoming server's bytes
BudgetExceeded_ignoring_new == current_storage_usage > lambda_storage_limit

\* a password drawn anew for every part
ArchivePassword_fresh_per_part == Token(part_number)

\* lines 282, 305, 310: the password argument of create_part_zip and
\* create_single_zip is the local drawn at line 266
ArchivePassword == password

\* line 277: if current_storage_usage + storage_used > lambda_storage_limit
BudgetExceeded == current_storage_usage + storage_used > lambda_storage_limit

NoError == [status_code |-> 0, message |-> "none"]
NoResult == [status |-> "none", message |-> "none"]

\* ------------------------------------------------------------------ Init
JobInit ==
    /\ servers \in {s \in SeqsUpTo(HostFileLists, MaxServers) : Len(s) >= 1}
    /\ uuid_calls = 1
    /\ password = Token(1)
    /\ hostIdx = 1
    /\ pc = "loop"
    /\ downloaded_files = {}
    /\ all_downloaded_files = {}
    /\ current_storage_usage = 0
    /\ zip_files = <<>>
    /\ part_number = 1
    /\ tmp_files = {}
    /\ tmp_zips = <<>>
    /\ uploaded = <<>>
    /\ returned_files = {}
    /\ server_ok = {}
    /\ server_failed = {}
    /\ failures = {}
    /\ trigger_largest = 0

\* the job is not running: used by the specifications of the other parts
JobIdle ==
    /\ servers = <<>>
    /\ uuid_calls = 0
    /\ password = Token(0)
    /\ hostIdx = 1
    /\ pc = "idle"
    /\ downloaded_files = {}
    /\ all_downloaded_files = {}
    /\ current_storage_usage = 0
    /\ zip_files = <<>>
    /\ part_number = 1
    /\ tmp_files = {}
    /\ tmp_zips = <<>>
    /\ uploaded = <<>>
    /\ returned_files = {}
    /\ server_ok = {}
    /\ server_failed = {}
    /\ failures = {}
    /\ trigger_largest = 0

HandlerIdle ==
    /\ handler = "none"
    /\ hpc = "idle"
    /\ from_date = 1
    /\ to_date = 1
    /\ ev_source = ""
    /\ ev_subject = ""
    /\ n_hosts = 0
    /\ sender_email = "None"
    /\ mail_subject = "None"
    /\ error = NoError
    /\ notify_calls = 0
    /\ notify_failed = FALSE
    /\ result = NoResult
    /\ contacted = {}
    /\ approval_sent = FALSE
    /\ acceptance_sent = FALSE

ExpandIdle ==
    /\ ex_impl = "none"
    /\ ex_pc = "idle"
    /\ ex_log_paths = <<>>
    /\ ex_from_date = <<2024, 2, 29>>
    /\ ex_to_date = <<2024, 2, 29>>
    /\ ex_current = <<2024, 2, 29>>
    /\ ex_i = 1
    /\ ex_pattern = 0
    /\ expanded_paths = <<>>
    /\ ex_origin = <<>>

ExtractIdle ==
    /\ xp_pc = "idle"
    /\ xp_body = <<>>
    /\ xp_reason = ""
    /\ xp_sender = ""
    /\ xp_now = <<2024, 3, 1>>
    /\ period_section = <<>>
    /\ xp_k = 1
    /\ found_dates = <<>>
    /\ xp_warnings = 0
    /\ xp_period = [kind |-> "none", from_date |-> <<>>, to_date |-> <<>>,
                    from_src |-> "none", to_src |-> "none", message |-> "none"]
    /\ xp_result = NoError

DownloadIdle ==
    /\ dl_paths = <<>>
    /\ dl_pc = "idle"
    /\ attempt = 0
    /\ retry_delay = 5
    /\ sleeps = <<>>
    /\ f_state = <<>>
    /\ f_attempt = <<>>
    /\ dl_tmp = {}
    /\ dl_downloaded_files = <<>>
    /\ total_storage_used = 0
    /\ sftp_ok = {}
    /\ connects = <<>>

KeyIdle ==
    /\ ky_pc = "idle"
    /\ ky_credentials = [has_password |-> FALSE, has_client_cert |-> FALSE, decodes |-> FALSE,
                         parses |-> {}, username |-> "None"]
    /\ ky_i = 0
    /\ ky_tried = <<>>
    /\ ky_result = [kind |-> "none", detail |-> "none", username |-> "None"]

MailIdle ==
    /\ ml_pc = "idle"
    /\ approval_data = [mail |-> <<>>, content |-> <<>>, system |-> <<>>,
                        from_date |-> <<0, 0, 0>>, to_date |-> <<0, 0, 0>>]
    /\ ml_around = <<<<>>, <<>>>>
    /\ ml_body = <<>>
    /\ mailto_link = <<>>
    /\ mail_body = <<>>
    /\ start_idx = -1
    /\ ml_i = 0
    /\ brace_count = 0
    /\ end_idx = -1
    /\ ml_result = [kind |-> "none", items |-> {}, status_code |-> 0]

Init == JobInit /\ HandlerIdle /\ DownloadIdle /\ ExpandIdle /\ ExtractIdle /\ KeyIdle /\ MailIdle

\* --------------------------------------------------------------- actions

\* a per-server failure that is not caught per server: it reaches the outer
\* except and ends the job
ProcessSingleServerRaises_aborting ==
    /\ pc = "loop"
    /\ hostIdx <= Len(servers)
    /\ server_failed' = server_failed \cup {hostIdx}
    /\ tmp_files' = cleanup_temp_files(tmp_files, all_downloaded_files)
    /\ pc' = "raised"
    /\ UNCHANGED <<servers, password, uuid_calls, hostIdx, downloaded_files, all_downloaded_files,
                   current_storage_usage, zip_files, part_number, tmp_zips,
                   uploaded, returned_files, server_ok, failures, trigger_largest>>

\* the call for the next host made while the flush of this one is pending
ProcessSingleServerRaises_during_flush ==
    /\ pc \in {"loop", "flush_upload"}
    /\ hostIdx + (IF pc = "loop" THEN 0 ELSE 1) <= Len(servers)
    /\ server_failed' = server_failed \cup {hostIdx + (IF pc = "loop" THEN 0 ELSE 1)}
    /\ hostIdx' = IF pc = "loop" THEN hostIdx + 1 ELSE hostIdx
    /\ UNCHANGED <<servers, password, uuid_calls, pc, downloaded_files, all_downloaded_files,
                   current_storage_usage, zip_files, part_number, tmp_files, tmp_zips,
                   uploaded, returned_files, server_ok, failures, trigger_largest>>

\* process_single_server raises (credential lookup, key parsing or the SSH
\* connection exhausted its retries); the inner except logs and continues.
ProcessSingleServerRaises ==
    /\ pc = "loop"
    /\ hostIdx <= Len(servers)
    /\ server_failed' = server_failed \cup {hostIdx}
    /\ hostIdx' = hostIdx + 1
    /\ UNCHANGED <<servers, password, uuid_calls, pc, downloaded_files, all_downloaded_files,
                   current_storage_usage, zip_files, part_number, tmp_files, tmp_zips,
                   uploaded, returned_files, server_ok, failures, trigger_largest>>

\* process_single_server returns the files whose download succeeded; they
\* are on disk from now on.
ServerReturns(got) ==
    /\ pc = "loop"
    /\ hostIdx <= Len(servers)
    /\ downloaded_files' = got
    /\ tmp_files' = tmp_files \cup got
    /\ returned_files' = returned_files \cup got
    /\ server_ok' = server_ok \cup {hostIdx}
    /\ pc' = "budget_check"
    /\ UNCHANGED <<servers, password, uuid_calls, hostIdx, all_downloaded_files,
                   current_storage_usage, zip_files, part_number, tmp_zips,
                   uploaded, server_failed, failures, trigger_largest>>

\* every path of the host was downloaded
ProcessSingleServerReturns == ServerReturns(FilesOfHost(hostIdx))

\* lines 277-296 when no flush happens: the budget is not exceeded, or it is
\* exceeded with an empty batch.
AddFiles ==
    /\ pc = "budget_check"
    /\ ~(BudgetExceeded /\ all_downloaded_files # {})
    /\ all_downloaded_files' = all_downloaded_files \cup downloaded_files
    /\ current_storage_usage' = current_storage_usage + storage_used
    /\ trigger_largest' = LargestSize(downloaded_files)
    /\ downloaded_files' = {}
    /\ hostIdx' = hostIdx + 1
    /\ pc' = "loop"
    /\ UNCHANGED <<servers, password, uuid_calls, zip_files, part_number, tmp_files,
                   tmp_zips, uploaded, returned_files, server_ok, server_failed, failures>>

\* line 282: create_part_zip of the intermediate flush.  A failure is raised
\* inside the per-server try block, so the inner except (line 298) catches
\* it and the loop continues with the next host.
FlushCreatePartZip ==
    /\ pc = "budget_check"
    /\ BudgetExceeded /\ all_downloaded_files # {}
    /\ \/ /\ tmp_zips' = WriteZip(tmp_zips, PartName(part_number), all_downloaded_files, TRUE)
          /\ pc' = "flush_upload"
          /\ UNCHANGED <<hostIdx, downloaded_files, failures>>
       \/ /\ tmp_zips' \in AfterFailedZip(tmp_zips, PartName(part_number))
          /\ failures' = failures \cup {"zip"}
          /\ downloaded_files' = {}
          /\ hostIdx' = hostIdx + 1
          /\ pc' = "loop"
    /\ UNCHANGED <<servers, password, uuid_calls, all_downloaded_files, current_storage_usage,
                   zip_files, part_number, tmp_files, uploaded, returned_files,
                   server_ok, server_failed, trigger_largest>>

\* lines 283-296: upload of the flushed part, cleanup, counter reset, then the
\* new files are added.  An upload failure is caught by the inner except too.
FlushUpload ==
    /\ pc = "flush_upload"
    /\ \/ LET name == PartName(part_number)
              files1 == cleanup_temp_files(tmp_files, all_downloaded_files)
              zips1 == RemoveZip(tmp_zips, name)
          IN /\ zip_files' = Append(zip_files, name)
             /\ uploaded' = Append(uploaded, [name |-> name, files |-> tmp_zips[name].files,
                                               password |-> ArchivePassword])
             /\ part_number' = part_number + 1
             /\ tmp_files' = files1
             /\ tmp_zips' = zips1
             /\ all_downloaded_files' = downloaded_files
             /\ current_storage_usage' = get_actual_tmp_usage(files1, zips1) + storage_used
             /\ trigger_largest' = LargestSize(downloaded_files)
             /\ UNCHANGED failures
       \/ /\ failures' = failures \cup {"upload"}
          /\ UNCHANGED <<zip_files, uploaded, part_number, tmp_files, tmp_zips,
                         all_downloaded_files, current_storage_usage, trigger_largest>>
    /\ downloaded_files' = {}
    /\ hostIdx' = hostIdx + 1
    /\ pc' = "loop"
    /\ UNCHANGED <<servers, password, uuid_calls, returned_files, server_ok, server_failed>>

\* an empty batch at the end of the loop treated as a failure of the job
ReturnWithoutArchive_raising ==
    /\ pc = "loop"
    /\ hostIdx > Len(servers)
    /\ all_downloaded_files = {}
    /\ pc' = "raised"
    /\ UNCHANGED <<servers, password, uuid_calls, hostIdx, downloaded_files, all_downloaded_files,
                   current_storage_usage, zip_files, part_number, tmp_files, tmp_zips,
                   uploaded, returned_files, server_ok, server_failed, failures,
                   trigger_largest>>

\* line 303 false: nothing left to archive, line 317 returns.
ReturnWithoutArchive ==
    /\ pc = "loop"
    /\ hostIdx > Len(servers)
    /\ all_downloaded_files = {}
    /\ pc' = "returned"
    /\ UNCHANGED <<servers, password, uuid_calls, hostIdx, downloaded_files, all_downloaded_files,
                   current_storage_usage, zip_files, part_number, tmp_files, tmp_zips,
                   uploaded, returned_files, server_ok, server_failed, failures,
                   trigger_largest>>

\* a last archive that is never numbered
FinalName_always_single == SingleName

\* the name of the archive of lines 304-313
FinalName == IF zip_files # <<>> THEN PartName(part_number) ELSE SingleName

\* lines 305 / 310: create_part_zip or create_single_zip at job end.  A
\* failure reaches the outer except: cleanup_temp_files, then re-raise.
FinalCreateZip ==
    /\ pc = "loop"
    /\ hostIdx > Len(servers)
    /\ all_downloaded_files # {}
    /\ \/ /\ tmp_zips' = WriteZip(tmp_zips, FinalName, all_downloaded_files, TRUE)
          /\ pc' = "final_upload"
          /\ UNCHANGED <<tmp_files, failures>>
       \/ /\ tmp_zips' \in AfterFailedZip(tmp_zips, FinalName)
          /\ failures' = failures \cup {"zip"}
          /\ tmp_files' = cleanup_temp_files(tmp_files, all_downloaded_files)
          /\ pc' = "raised"
    /\ UNCHANGED <<servers, password, uuid_calls, hostIdx, downloaded_files, all_downloaded_files,
                   current_storage_usage, zip_files, part_number, uploaded,
                   returned_files, server_ok, server_failed, trigger_largest>>

\* lines 306-315: upload, os.remove(zip_path), cleanup_temp_files, return;
\* an upload failure reaches the outer except.
FinalUpload ==
    /\ pc = "final_upload"
    /\ \/ /\ zip_files' = Append(zip_files, FinalName)
          /\ uploaded' = Append(uploaded, [name |-> FinalName, files |-> tmp_zips[FinalName].files,
                                            password |-> ArchivePassword])
          /\ tmp_zips' = RemoveZip(tmp_zips, FinalName)
          /\ pc' = "returned"
          /\ UNCHANGED failures
       \/ /\ failures' = failures \cup {"upload"}
          /\ pc' = "raised"
          /\ UNCHANGED <<zip_files, uploaded, tmp_zips>>
    /\ tmp_files' = cleanup_temp_files(tmp_files, all_downloaded_files)
    /\ UNCHANGED <<servers, password, uuid_calls, hostIdx, downloaded_files, all_downloaded_files,
                   current_storage_usage, part_number, returned_files, server_ok,
                   server_failed, trigger_largest>>

JobNext ==
    \/ ProcessSingleServerRaises
    \/ ProcessSingleServerReturns
    \/ AddFiles
    \/ FlushCreatePartZip
    \/ FlushUpload
    \/ ReturnWithoutArchive
    \/ FinalCreateZip
    \/ FinalUpload

Next == JobNext /\ UNCHANGED <<handlerVars, dlVars, expandVars, extractVars, keyVars, mailVars>>

Spec == Init /\ [][Next]_vars

\* ===================================================== lambda_handler x 2

\* an APIException / Exception as the except clauses see it
Err(code, msg) == [status_code |-> code, message |-> msg]

\* Python truthiness of an optional string: None and "" are falsy
Truthy(x) == x \notin {"None", ""}

\* a stage of a handler fails: control moves to the except clause
HandlerRaises(e, except_pc) ==
    /\ error' = e
    /\ hpc' = except_pc

HandlerInit ==
    /\ handler \in {"get_log", "approve"}
    /\ hpc = "env"
    /\ from_date \in 1..MaxDay
    /\ to_date \in 1..MaxDay
    /\ ev_source \in {"", "user@example.com"}
    /\ ev_subject \in {"", "systemA"}
    /\ n_hosts \in 0..MaxServers
    /\ sender_email = "None"
    /\ mail_subject = "None"
    /\ error = NoError
    /\ notify_calls = 0
    /\ notify_failed = FALSE
    /\ result = NoResult
    /\ contacted = {}
    /\ approval_sent = FALSE
    /\ acceptance_sent = FALSE

\* ------------------------------------------------ get-log.py lambda_handler

\* line 73: validate_environment_variables()
GL_ValidateEnvironment ==
    /\ handler = "get_log" /\ hpc = "env"
    /\ \/ hpc' = "ses" /\ UNCHANGED error
       \/ HandlerRaises(Err(500, "env"), "except")
    /\ UNCHANGED <<handler, from_date, to_date, ev_source, ev_subject, n_hosts,
                   sender_email, mail_subject, notify_calls, notify_failed, result,
                   contacted, approval_sent, acceptance_sent>>

\* lines 76-78: a malformed event raises KeyError (a plain Exception)
GL_ParseSesEvent ==
    /\ handler = "get_log" /\ hpc = "ses"
    /\ \/ hpc' = "mail" /\ UNCHANGED error
       \/ HandlerRaises(Err(0, "ses"), "except")
    /\ UNCHANGED <<handler, from_date, to_date, ev_source, ev_subject, n_hosts,
                   sender_email, mail_subject, notify_calls, notify_failed, result,
                   contacted, approval_sent, acceptance_sent>>

\* line 83: get_email_body_from_s3
GL_GetEmailBody ==
    /\ handler = "get_log" /\ hpc = "mail"
    /\ \/ hpc' = "json" /\ UNCHANGED error
       \/ HandlerRaises(Err(500, "s3"), "except")
    /\ UNCHANGED <<handler, from_date, to_date, ev_source, ev_subject, n_hosts,
                   sender_email, mail_subject, notify_calls, notify_failed, result,
                   contacted, approval_sent, acceptance_sent>>

\* line 84: extract_json_from_email
GL_ExtractJson ==
    /\ handler = "get_log" /\ hpc = "json"
    /\ \/ hpc' = "dates" /\ UNCHANGED error
       \/ HandlerRaises(Err(400, "json"), "except")
    /\ UNCHANGED <<handler, from_date, to_date, ev_source, ev_subject, n_hosts,
                   sender_email, mail_subject, notify_calls, notify_failed, result,
                   contacted, approval_sent, acceptance_sent>>

\* lines 85-88: the fields of the reply JSON are read and the two dates are
\* parsed; a missing key or a malformed date raises (KeyError / ValueError).
\* The two dates are not compared with each other.
GL_ParseDates ==
    /\ handler = "get_log" /\ hpc = "dates"
    /\ \/ hpc' = "config" /\ UNCHANGED error
       \/ HandlerRaises(Err(0, "request"), "except")
    /\ UNCHANGED <<handler, from_date, to_date, ev_source, ev_subject, n_hosts,
                   sender_email, mail_subject, notify_calls, notify_failed, result,
                   contacted, approval_sent, acceptance_sent>>

\* line 97: get_ssm_param
GL_GetConfig ==
    /\ handler = "get_log" /\ hpc = "config"
    /\ \/ hpc' = "retrieval" /\ UNCHANGED error
       \/ HandlerRaises(Err(500, "config"), "except")
    /\ UNCHANGED <<handler, from_date, to_date, ev_source, ev_subject, n_hosts,
                   sender_email, mail_subject, notify_calls, notify_failed, result,
                   contacted, approval_sent, acceptance_sent>>

\* lines 98-100: process_servers_logs.  Every host whose credentials resolve
\* gets an SSH connection (download_logs_from_server connects before it looks
\* at the expanded paths); archive or upload failures at job end raise.
GL_ProcessServersLogs ==
    /\ handler = "get_log" /\ hpc = "retrieval"
    /\ \E c \in SUBSET (1..n_hosts) : contacted' = c
    /\ \/ hpc' = "notify" /\ UNCHANGED error
       \/ HandlerRaises(Err(500, "retrieval"), "except")
    /\ UNCHANGED <<handler, from_date, to_date, ev_source, ev_subject, n_hosts,
                   sender_email, mail_subject, notify_calls, notify_failed, result,
                   approval_sent, acceptance_sent>>

\* lines 103-106: send_success_notifications, then {"status": "OK"}
GL_SendSuccessNotifications ==
    /\ handler = "get_log" /\ hpc = "notify"
    /\ \/ /\ hpc' = "done"
          /\ result' = [status |-> "OK", message |-> "none"]
          /\ UNCHANGED error
       \/ /\ HandlerRaises(Err(502, "notify"), "except")
          /\ UNCHANGED result
    /\ UNCHANGED <<handler, from_date, to_date, ev_source, ev_subject, n_hosts,
                   sender_email, mail_subject, notify_calls, notify_failed,
                   contacted, approval_sent, acceptance_sent>>

\* a notification whose failure is not swallowed
send_failure_notification_reraising(teams_ok) ==
    IF teams_ok THEN "sent" ELSE "raised"

\* lines 658-695: call_teams_api inside try / except Exception: log only
send_failure_notification(teams_ok) ==
    IF teams_ok THEN "sent" ELSE "swallowed"

\* lines 108-115: both except clauses notify, then return the error result
GL_HandleError ==
    /\ handler = "get_log" /\ hpc = "except"
    /\ \E teams_ok \in BOOLEAN :
        LET sent == send_failure_notification(teams_ok)
        IN /\ notify_calls' = notify_calls + 1
           /\ notify_failed' = ~teams_ok
           /\ IF sent = "raised"
              THEN hpc' = "raised" /\ UNCHANGED result
              ELSE /\ hpc' = "done"
                   /\ result' = [status |-> "Error", message |-> error.message]
    /\ UNCHANGED <<handler, from_date, to_date, ev_source, ev_subject, n_hosts,
                   sender_email, mail_subject, error, contacted, approval_sent, acceptance_sent>>

\* ------------------------------------------------ approve.py lambda_handler

\* line 95: validate_environment_variables()
AP_ValidateEnvironment ==
    /\ handler = "approve" /\ hpc = "env"
    /\ \/ hpc' = "ses" /\ UNCHANGED error
       \/ HandlerRaises(Err(500, "env"), "except")
    /\ UNCHANGED <<handler, from_date, to_date, ev_source, ev_subject, n_hosts,
                   sender_email, mail_subject, notify_calls, notify_failed, result,
                   contacted, approval_sent, acceptance_sent>>

\* lines 98-108: messageId, subject and source are read in this order; a
\* missing key raises APIException(400) with the later locals still None
AP_ParseSesEvent ==
    /\ handler = "approve" /\ hpc = "ses"
    /\ \/ /\ mail_subject' = ev_subject
          /\ sender_email' = ev_source
          /\ hpc' = "mail"
          /\ UNCHANGED error
       \/ /\ mail_subject' \in {"None", ev_subject}
          /\ UNCHANGED sender_email
          /\ HandlerRaises(Err(400, "ses"), "except")
    /\ UNCHANGED <<handler, from_date, to_date, ev_source, ev_subject, n_hosts,
                   notify_calls, notify_failed, result, contacted, approval_sent, acceptance_sent>>

\* line 111: get_email_body_from_s3
AP_GetEmailBody ==
    /\ handler = "approve" /\ hpc = "mail"
    /\ \/ hpc' = "validate" /\ UNCHANGED error
       \/ HandlerRaises(Err(500, "s3"), "except")
    /\ UNCHANGED <<handler, from_date, to_date, ev_source, ev_subject, n_hosts,
                   sender_email, mail_subject, notify_calls, notify_failed, result,
                   contacted, approval_sent, acceptance_sent>>

\* ApprovalData.validate_date_range: raises when to_date < from_date
validate_date_range(f, t) == ~(t < f)

\* lines 114-116: extract_and_validate_approval_data.  The reason, the period
\* and the sender may each be rejected; the date range always is when the
\* validator refuses it.
AP_ExtractAndValidate ==
    /\ handler = "approve" /\ hpc = "validate"
    /\ \/ /\ validate_date_range(from_date, to_date)
          /\ hpc' = "approval"
          /\ UNCHANGED error
       \/ /\ ~validate_date_range(from_date, to_date)
          /\ HandlerRaises(Err(400, "date_range"), "except")
       \/ \E e \in {Err(400, "reason"), Err(422, "period"), Err(400, "sender")} :
             HandlerRaises(e, "except")
    /\ UNCHANGED <<handler, from_date, to_date, ev_source, ev_subject, n_hosts,
                   sender_email, mail_subject, notify_calls, notify_failed, result,
                   contacted, approval_sent, acceptance_sent>>

\* an approval message whose failure is logged and passed over
AP_SendApproval_passing_over ==
    /\ handler = "approve" /\ hpc = "approval"
    /\ \/ approval_sent' = TRUE
       \/ UNCHANGED approval_sent
    /\ hpc' = "acceptance"
    /\ UNCHANGED <<handler, from_date, to_date, ev_source, ev_subject, n_hosts,
                   sender_email, mail_subject, error, notify_calls, notify_failed, result,
                   contacted, acceptance_sent>>

\* line 119: send_teams_approval_message
AP_SendApproval ==
    /\ handler = "approve" /\ hpc = "approval"
    /\ \/ /\ approval_sent' = TRUE
          /\ hpc' = "acceptance"
          /\ UNCHANGED error
       \/ /\ HandlerRaises(Err(502, "approval"), "except")
          /\ UNCHANGED approval_sent
    /\ UNCHANGED <<handler, from_date, to_date, ev_source, ev_subject, n_hosts,
                   sender_email, mail_subject, notify_calls, notify_failed, result,
                   contacted, acceptance_sent>>

\* lines 122-125: send_teams_acceptance_notification, then the 200 response
AP_SendAcceptance ==
    /\ handler = "approve" /\ hpc = "acceptance"
    /\ \/ /\ acceptance_sent' = TRUE
          /\ hpc' = "done"
          /\ result' = [status |-> 200, message |-> "none"]
          /\ UNCHANGED error
       \/ /\ HandlerRaises(Err(502, "acceptance"), "except")
          /\ UNCHANGED <<result, acceptance_sent>>
    /\ UNCHANGED <<handler, from_date, to_date, ev_source, ev_subject, n_hosts,
                   sender_email, mail_subject, notify_calls, notify_failed,
                   contacted, approval_sent>>

\* lines 517-553: call_teams_api inside try / except Exception: return None
send_error_notification(teams_ok) ==
    IF teams_ok THEN "sent" ELSE "swallowed"

\* lines 127-137: the notification is attempted only when both sender_email
\* and mail_subject are truthy; an exception of the notification is caught
\* again at line 134.  Then create_error_response(e.status_code, e.message).
AP_HandleError ==
    /\ handler = "approve" /\ hpc = "except"
    /\ IF Truthy(sender_email) /\ Truthy(mail_subject)
       THEN \E teams_ok \in BOOLEAN :
              /\ send_error_notification(teams_ok) \in {"sent", "swallowed", "raised"}
              /\ notify_calls' = notify_calls + 1
              /\ notify_failed' = ~teams_ok
       ELSE UNCHANGED <<notify_calls, notify_failed>>
    /\ hpc' = "done"
    /\ result' = [status |-> error.status_code, message |-> error.message]
    /\ UNCHANGED <<handler, from_date, to_date, ev_source, ev_subject, n_hosts,
                   sender_email, mail_subject, error, contacted, approval_sent, acceptance_sent>>

HandlerNext ==
    \/ GL_ValidateEnvironment
    \/ GL_ParseSesEvent
    \/ GL_GetEmailBody
    \/ GL_ExtractJson
    \/ GL_ParseDates
    \/ GL_GetConfig
    \/ GL_ProcessServersLogs
    \/ GL_SendSuccessNotifications
    \/ GL_HandleError
    \/ AP_ValidateEnvironment
    \/ AP_ParseSesEvent
    \/ AP_GetEmailBody
    \/ AP_ExtractAndValidate
    \/ AP_SendApproval
    \/ AP_SendAcceptance
    \/ AP_HandleError

InitHandler == JobIdle /\ HandlerInit /\ DownloadIdle /\ ExpandIdle /\ ExtractIdle /\ KeyIdle /\ MailIdle

NextHandler == HandlerNext /\ UNCHANGED <<jobVars, dlVars, expandVars, extractVars, keyVars, mailVars>>

SpecHandler == InitHandler /\ [][NextHandler]_vars

\* ------------------------- get-log.py lambda_handler around the whole job
\* lines 98-106 with process_servers_logs run step by step: the handler has
\* passed its parsing stages and calls the job with the configured servers.

\* files per host in the runs of the handler around the job
MaxLambdaFiles == 1

LambdaInit ==
    /\ \A h \in 1..Len(servers) : Len(servers[h]) <= MaxLambdaFiles
    /\ handler = "get_log"
    /\ hpc = "retrieval"
    /\ from_date = 1
    /\ to_date = 1
    /\ ev_source = "user@example.com"
    /\ ev_subject = "systemA"
    /\ n_hosts = Len(servers)
    /\ sender_email = "None"
    /\ mail_subject = "None"
    /\ error = NoError
    /\ notify_calls = 0
    /\ notify_failed = FALSE
    /\ result = NoResult
    /\ contacted = {}
    /\ approval_sent = FALSE
    /\ acceptance_sent = FALSE

\* line 98: process_servers_logs returned (line 317) or raised (line 321)
GL_JobCompletes ==
    /\ handler = "get_log" /\ hpc = "retrieval"
    /\ \/ pc = "returned" /\ hpc' = "notify" /\ UNCHANGED error
       \/ pc = "raised" /\ HandlerRaises(Err(500, "retrieval"), "except")
    /\ UNCHANGED <<handler, from_date, to_date, ev_source, ev_subject, n_hosts,
                   sender_email, mail_subject, notify_calls, notify_failed, result,
                   contacted, approval_sent, acceptance_sent>>

InitLambda == JobInit /\ LambdaInit /\ DownloadIdle /\ ExpandIdle /\ ExtractIdle /\ KeyIdle /\ MailIdle

NextLambda ==
    \/ JobNext /\ UNCHANGED <<handlerVars, dlVars, expandVars, extractVars, keyVars, mailVars>>
    \/ GL_JobCompletes /\ UNCHANGED <<jobVars, dlVars, expandVars, extractVars, keyVars, mailVars>>
    \/ GL_SendSuccessNotifications /\ UNCHANGED <<jobVars, dlVars, expandVars, extractVars, keyVars, mailVars>>
    \/ GL_HandleError /\ UNCHANGED <<jobVars, dlVars, expandVars, extractVars, keyVars, mailVars>>

SpecLambda == InitLambda /\ [][NextLambda]_vars


\* ============================================ download_logs_from_server

max_retries == 3

\* max(1, min(2, len(log_paths)))
max_workers == Max(1, IF Len(dl_paths) < 2 THEN Len(dl_paths) ELSE 2)

PathIds == 1..Len(dl_paths)

Running == {k \in PathIds : f_state[k] \in {"attempting", "get_failed"}}
Queued == {k \in PathIds : f_state[k] = "queued"}

\* the temp file of one attempt: /tmp/<fresh uuid prefix>_<basename>
TmpName(k, att) == <<k, att>>

DownloadInit ==
    /\ dl_paths \in SeqsUpTo(FileSizes, MaxPaths)
    /\ dl_pc = "connect"
    /\ attempt = 0
    /\ retry_delay = 5
    /\ sleeps = <<>>
    /\ f_state = [k \in 1..Len(dl_paths) |-> "queued"]
    /\ f_attempt = [k \in 1..Len(dl_paths) |-> 0]
    /\ dl_tmp = {}
    /\ dl_downloaded_files = <<>>
    /\ total_storage_used = 0
    /\ sftp_ok = {}
    /\ connects = <<>>

\* lines 364-374: ssh.connect succeeds; one future per path is submitted
ConnectSucceeds ==
    /\ dl_pc = "connect"
    /\ dl_pc' = "pool"
    /\ connects' = Append(connects, "connected")
    /\ UNCHANGED <<dl_paths, attempt, retry_delay, sleeps, f_state, f_attempt, dl_tmp,
                   dl_downloaded_files, total_storage_used, sftp_ok>>

\* a retry whose delay stays at its base value
ConnectFails_constant_delay ==
    /\ dl_pc = "connect"
    /\ connects' = Append(connects, "failed")
    /\ IF attempt < max_retries - 1
       THEN /\ sleeps' = Append(sleeps, retry_delay)
            /\ attempt' = attempt + 1
            /\ UNCHANGED <<dl_pc, retry_delay>>
       ELSE /\ dl_pc' = "raised"
            /\ UNCHANGED <<sleeps, retry_delay, attempt>>
    /\ UNCHANGED <<dl_paths, f_state, f_attempt, dl_tmp, dl_downloaded_files,
                   total_storage_used, sftp_ok>>

\* lines 397-406: ssh.connect raises; sleep and retry, or give up after the
\* last attempt
ConnectFails ==
    /\ dl_pc = "connect"
    /\ connects' = Append(connects, "failed")
    /\ IF attempt < max_retries - 1
       THEN /\ sleeps' = Append(sleeps, retry_delay)
            /\ retry_delay' = retry_delay * 2
            /\ attempt' = attempt + 1
            /\ UNCHANGED dl_pc
       ELSE /\ dl_pc' = "raised"
            /\ UNCHANGED <<sleeps, retry_delay, attempt>>
    /\ UNCHANGED <<dl_paths, f_state, f_attempt, dl_tmp, dl_downloaded_files,
                   total_storage_used, sftp_ok>>

\* a free worker of the pool takes the oldest submitted path (FIFO queue)
WorkerTakes(k) ==
    /\ dl_pc = "pool"
    /\ f_state[k] = "queued"
    /\ \A j \in Queued : k <= j
    /\ Cardinality(Running) < max_workers
    /\ f_state' = [f_state EXCEPT ![k] = "attempting"]
    /\ UNCHANGED <<dl_paths, dl_pc, attempt, retry_delay, sleeps, f_attempt, dl_tmp,
                   dl_downloaded_files, total_storage_used, sftp_ok, connects>>

\* lines 421-430: sftp.get into the temp file of this attempt.  On success
\* the future completes with the file_info; on failure the temp file may or
\* may not have been created.
SftpGet(k) ==
    /\ dl_pc = "pool"
    /\ f_state[k] = "attempting"
    /\ \/ /\ dl_tmp' = dl_tmp \cup {TmpName(k, f_attempt[k])}
          /\ f_state' = [f_state EXCEPT ![k] = "done_ok"]
          /\ sftp_ok' = sftp_ok \cup {k}
       \/ /\ dl_tmp' \in {dl_tmp, dl_tmp \cup {TmpName(k, f_attempt[k])}}
          /\ f_state' = [f_state EXCEPT ![k] = "get_failed"]
          /\ UNCHANGED sftp_ok
    /\ UNCHANGED <<dl_paths, dl_pc, attempt, retry_delay, sleeps, f_attempt,
                   dl_downloaded_files, total_storage_used, connects>>

\* a failed attempt whose temp file is left where it is
HandleAttemptFailure_keeping_file(k) ==
    /\ dl_pc = "pool"
    /\ f_state[k] = "get_failed"
    /\ IF f_attempt[k] < max_retries - 1
       THEN /\ f_attempt' = [f_attempt EXCEPT ![k] = @ + 1]
            /\ f_state' = [f_state EXCEPT ![k] = "attempting"]
       ELSE /\ f_state' = [f_state EXCEPT ![k] = "done_err"]
            /\ UNCHANGED f_attempt
    /\ UNCHANGED <<dl_paths, dl_pc, attempt, retry_delay, sleeps, dl_tmp,
                   dl_downloaded_files, total_storage_used, sftp_ok, connects>>

\* lines 432-443: remove the temp file of the failed attempt, then retry
\* (after a sleep of 2 s, then 3 s) or raise once the last attempt failed
HandleAttemptFailure(k) ==
    /\ dl_pc = "pool"
    /\ f_state[k] = "get_failed"
    /\ dl_tmp' = dl_tmp \ {TmpName(k, f_attempt[k])}
    /\ IF f_attempt[k] < max_retries - 1
       THEN /\ f_attempt' = [f_attempt EXCEPT ![k] = @ + 1]
            /\ f_state' = [f_state EXCEPT ![k] = "attempting"]
       ELSE /\ f_state' = [f_state EXCEPT ![k] = "done_err"]
            /\ UNCHANGED f_attempt
    /\ UNCHANGED <<dl_paths, dl_pc, attempt, retry_delay, sleeps,
                   dl_downloaded_files, total_storage_used, sftp_ok, connects>>

\* a byte count updated from a stale read while another future is complete
FutureResultReturns_lost_update(k) ==
    /\ dl_pc = "pool"
    /\ f_state[k] = "done_ok"
    /\ dl_downloaded_files' = Append(dl_downloaded_files,
            [original_path |-> k, local_path |-> TmpName(k, f_attempt[k]),
             file_size |-> dl_paths[k]])
    /\ total_storage_used' =
          IF \E j \in PathIds \ {k} : f_state[j] = "done_ok"
          THEN total_storage_used ELSE total_storage_used + dl_paths[k]
    /\ f_state' = [f_state EXCEPT ![k] = "collected_ok"]
    /\ UNCHANGED <<dl_paths, dl_pc, attempt, retry_delay, sleeps, f_attempt, dl_tmp,
                   sftp_ok, connects>>

\* lines 386-389: as_completed yields a future that holds a file_info
FutureResultReturns(k) ==
    /\ dl_pc = "pool"
    /\ f_state[k] = "done_ok"
    /\ dl_downloaded_files' = Append(dl_downloaded_files,
            [original_path |-> k, local_path |-> TmpName(k, f_attempt[k]),
             file_size |-> dl_paths[k]])
    /\ total_storage_used' = total_storage_used + dl_paths[k]
    /\ f_state' = [f_state EXCEPT ![k] = "collected_ok"]
    /\ UNCHANGED <<dl_paths, dl_pc, attempt, retry_delay, sleeps, f_attempt, dl_tmp,
                   sftp_ok, connects>>

\* future.result() outside any try block: the exception of one file leaves
\* the collection loop
FutureResultRaises_propagating(k) ==
    /\ dl_pc = "pool"
    /\ f_state[k] = "done_err"
    /\ f_state' = [f_state EXCEPT ![k] = "collected_err"]
    /\ dl_pc' = "raised"
    /\ UNCHANGED <<dl_paths, attempt, retry_delay, sleeps, f_attempt, dl_tmp,
                   dl_downloaded_files, total_storage_used, sftp_ok, connects>>

\* lines 390-392: as_completed yields a future that holds the exception of a
\* path whose retries are exhausted; it is logged and the loop continues
FutureResultRaises(k) ==
    /\ dl_pc = "pool"
    /\ f_state[k] = "done_err"
    /\ f_state' = [f_state EXCEPT ![k] = "collected_err"]
    /\ UNCHANGED <<dl_paths, dl_pc, attempt, retry_delay, sleeps, f_attempt, dl_tmp,
                   dl_downloaded_files, total_storage_used, sftp_ok, connects>>

\* a return that waits until every future has yielded a file
DownloadReturns_all_must_succeed ==
    /\ dl_pc = "pool"
    /\ \A k \in PathIds : f_state[k] = "collected_ok"
    /\ dl_pc' = "returned"
    /\ UNCHANGED <<dl_paths, attempt, retry_delay, sleeps, f_state, f_attempt, dl_tmp,
                   dl_downloaded_files, total_storage_used, sftp_ok, connects>>

\* line 395: every future was collected
DownloadReturns ==
    /\ dl_pc = "pool"
    /\ \A k \in PathIds : f_state[k] \in {"collected_ok", "collected_err"}
    /\ dl_pc' = "returned"
    /\ UNCHANGED <<dl_paths, attempt, retry_delay, sleeps, f_state, f_attempt, dl_tmp,
                   dl_downloaded_files, total_storage_used, sftp_ok, connects>>

DownloadNext ==
    \/ ConnectSucceeds
    \/ ConnectFails
    \/ \E k \in PathIds : WorkerTakes(k)
    \/ \E k \in PathIds : SftpGet(k)
    \/ \E k \in PathIds : HandleAttemptFailure(k)
    \/ \E k \in PathIds : FutureResultReturns(k)
    \/ \E k \in PathIds : FutureResultRaises(k)
    \/ DownloadReturns

InitDownload == JobIdle /\ HandlerIdle /\ DownloadInit /\ ExpandIdle /\ ExtractIdle /\ KeyIdle /\ MailIdle

NextDownload == DownloadNext /\ UNCHANGED <<jobVars, handlerVars, expandVars, extractVars, keyVars, mailVars>>

SpecDownload == InitDownload /\ [][NextDownload]_vars

\* ====================================================== expand_log_paths
\* get-log.py 335-353, get-log-api-send-approval-dev.py 123-134 and
\* get-log-api-log-processor-dev.py 135-150, one loop iteration per step.

MaxTemplates == 2

\* configured path templates, each a sequence of pieces: without placeholder,
\* with either spelling, with one spelling twice and with both spellings
Templates ==
    { <<"/var/log/app">>,
      <<"/var/log/app", "yyyy-mm-dd">>,
      <<"/var/log/app", "yyyymmdd">>,
      <<"yyyy-mm-dd", "yyyy-mm-dd">>,
      <<"yyyymmdd", "yyyy-mm-dd">>,
      <<"yyyy-mm-dd">> }

\* calendar dates <<year, month, day>>, as datetime keeps them
\* Python's None where a date is optional
NoDate == <<0, 0, 0>>

IsLeap(y) == (y % 4 = 0 /\ y % 100 # 0) \/ y % 400 = 0

DaysInMonth(y, m) ==
    IF m = 2 THEN (IF IsLeap(y) THEN 29 ELSE 28)
    ELSE IF m \in {4, 6, 9, 11} THEN 30 ELSE 31

\* current + timedelta(days=1)
NextDay(d) ==
    IF d[3] < DaysInMonth(d[1], d[2]) THEN <<d[1], d[2], d[3] + 1>>
    ELSE IF d[2] < 12 THEN <<d[1], d[2] + 1, 1>>
    ELSE <<d[1] + 1, 1, 1>>

\* datetime comparison a <= b
DateLeq(a, b) ==
    \/ a[1] < b[1]
    \/ a[1] = b[1] /\ a[2] < b[2]
    \/ a[1] = b[1] /\ a[2] = b[2] /\ a[3] <= b[3]

\* the k-th day of the requested periods; the first is 2024-02-29
RECURSIVE DateOf(_)
DateOf(k) == IF k <= 1 THEN <<2024, 2, 29>> ELSE NextDay(DateOf(k - 1))

ExpandDates == {DateOf(k) : k \in 1..MaxDay}

\* decimal digits as characters, zero padded
DigitChar(n) == <<"0", "1", "2", "3", "4", "5", "6", "7", "8", "9">>[n + 1]
Digits2(n) == <<DigitChar((n \div 10) % 10), DigitChar(n % 10)>>
Digits4(n) == <<DigitChar((n \div 1000) % 10), DigitChar((n \div 100) % 10)>> \o Digits2(n)

\* current.strftime(fmt)
strftime(d, fmt) ==
    IF fmt = "%Y-%m-%d"
    THEN Digits4(d[1]) \o <<"-">> \o Digits2(d[2]) \o <<"-">> \o Digits2(d[3])
    ELSE Digits4(d[1]) \o Digits2(d[2]) \o Digits2(d[3])

\* date_patterns of get-log.py in dict order; the two older handlers know
\* 'yyyy-mm-dd' only
date_patterns(impl) ==
    IF impl = "get_log"
    THEN << <<"yyyy-mm-dd", "%Y-%m-%d">>, <<"yyyymmdd", "%Y%m%d">> >>
    ELSE << <<"yyyy-mm-dd", "%Y-%m-%d">> >>

\* pattern in path
Contains(path, pattern) == \E j \in 1..Len(path) : path[j] = pattern

\* path.replace(pattern, text): every occurrence is replaced by the
\* characters of text
RECURSIVE Replace(_, _, _)
Replace(path, pattern, text) ==
    IF path = <<>> THEN <<>>
    ELSE (IF Head(path) = pattern THEN text ELSE <<Head(path)>>)
         \o Replace(Tail(path), pattern, text)

\* index of the first entry of date_patterns found in the path, 0 if none
MatchedPattern(impl, path) ==
    LET hits == {n \in 1..Len(date_patterns(impl)) :
                    Contains(path, date_patterns(impl)[n][1])}
    IN IF hits = {} THEN 0 ELSE CHOOSE n \in hits : \A o \in hits : n <= o

\* the caller's arguments; only the log processor accepts an absent to_date
ExpandInit ==
    /\ ex_impl \in {"get_log", "send_approval", "log_processor"}
    /\ ex_pc = "for"
    /\ ex_log_paths \in {l \in SeqsUpTo(Templates, MaxTemplates) : Len(l) >= 1}
    /\ ex_from_date \in ExpandDates
    /\ ex_to_date \in ExpandDates \cup (IF ex_impl = "log_processor" THEN {NoDate} ELSE {})
    /\ ex_current = ex_from_date
    /\ ex_i = 1
    /\ ex_pattern = 0
    /\ expanded_paths = <<>>
    /\ ex_origin = <<>>

\* an exclusive upper end of the date loop
InRange_exclusive(cur, to) == DateLeq(cur, to) /\ cur # to

\* while current <= to_date
InRange(cur, to) == DateLeq(cur, to)

\* a placeholder is found in the template.  get-log.py 344 and
\* send-approval 128 start the loop variable at from_date; the log processor
\* (145-147) loops on its parameter from_date itself.
ExpandMatched ==
    /\ ex_pc = "for"
    /\ ex_i <= Len(ex_log_paths)
    /\ MatchedPattern(ex_impl, ex_log_paths[ex_i]) # 0
    /\ ex_pattern' = MatchedPattern(ex_impl, ex_log_paths[ex_i])
    /\ ex_current' = IF ex_impl = "log_processor" THEN ex_current ELSE ex_from_date
    /\ ex_pc' = IF ex_to_date = NoDate THEN "single" ELSE "while"
    /\ UNCHANGED <<ex_impl, ex_log_paths, ex_from_date, ex_to_date, ex_i,
                   expanded_paths, ex_origin>>

\* one pass of the while loop: append the path of the current day, advance
ExpandAppendDay ==
    /\ ex_pc = "while"
    /\ InRange(ex_current, ex_to_date)
    /\ LET p == date_patterns(ex_impl)[ex_pattern]
       IN expanded_paths' = Append(expanded_paths,
                                   Replace(ex_log_paths[ex_i], p[1], strftime(ex_current, p[2])))
    /\ ex_origin' = Append(ex_origin, [template |-> ex_i, date |-> ex_current])
    /\ ex_current' = NextDay(ex_current)
    /\ UNCHANGED <<ex_impl, ex_pc, ex_log_paths, ex_from_date, ex_to_date, ex_i, ex_pattern>>

\* the while loop ends; matched = True; break
ExpandRunEnds ==
    /\ ex_pc = "while"
    /\ ~InRange(ex_current, ex_to_date)
    /\ ex_i' = ex_i + 1
    /\ ex_pc' = "for"
    /\ UNCHANGED <<ex_impl, ex_log_paths, ex_from_date, ex_to_date, ex_current, ex_pattern,
                   expanded_paths, ex_origin>>

\* log processor 140-142: to_date is None, the day of from_date alone
ExpandSingleDay ==
    /\ ex_pc = "single"
    /\ LET p == date_patterns(ex_impl)[ex_pattern]
       IN expanded_paths' = Append(expanded_paths,
                                   Replace(ex_log_paths[ex_i], p[1], strftime(ex_current, p[2])))
    /\ ex_origin' = Append(ex_origin, [template |-> ex_i, date |-> ex_current])
    /\ ex_i' = ex_i + 1
    /\ ex_pc' = "for"
    /\ UNCHANGED <<ex_impl, ex_log_paths, ex_from_date, ex_to_date, ex_current, ex_pattern>>

\* a template without placeholder that is kept only for a non-empty period
ExpandUnmatched_in_period_only ==
    /\ ex_pc = "for"
    /\ ex_i <= Len(ex_log_paths)
    /\ MatchedPattern(ex_impl, ex_log_paths[ex_i]) = 0
    /\ IF ex_to_date # NoDate /\ DateLeq(ex_from_date, ex_to_date)
       THEN /\ expanded_paths' = Append(expanded_paths, ex_log_paths[ex_i])
            /\ ex_origin' = Append(ex_origin, [template |-> ex_i, date |-> NoDate])
       ELSE UNCHANGED <<expanded_paths, ex_origin>>
    /\ ex_i' = ex_i + 1
    /\ UNCHANGED <<ex_impl, ex_pc, ex_log_paths, ex_from_date, ex_to_date, ex_current,
                   ex_pattern>>

\* if not matched: expanded_paths.append(path)
ExpandUnmatched ==
    /\ ex_pc = "for"
    /\ ex_i <= Len(ex_log_paths)
    /\ MatchedPattern(ex_impl, ex_log_paths[ex_i]) = 0
    /\ expanded_paths' = Append(expanded_paths, ex_log_paths[ex_i])
    /\ ex_origin' = Append(ex_origin, [template |-> ex_i, date |-> NoDate])
    /\ ex_i' = ex_i + 1
    /\ UNCHANGED <<ex_impl, ex_pc, ex_log_paths, ex_from_date, ex_to_date, ex_current,
                   ex_pattern>>

\* return expanded_paths
ExpandReturns ==
    /\ ex_pc = "for"
    /\ ex_i > Len(ex_log_paths)
    /\ ex_pc' = "returned"
    /\ UNCHANGED <<ex_impl, ex_log_paths, ex_from_date, ex_to_date, ex_current, ex_i,
                   ex_pattern, expanded_paths, ex_origin>>

ExpandNext ==
    \/ ExpandMatched
    \/ ExpandAppendDay
    \/ ExpandRunEnds
    \/ ExpandSingleDay
    \/ ExpandUnmatched
    \/ ExpandReturns

InitExpand == JobIdle /\ HandlerIdle /\ DownloadIdle /\ ExpandInit /\ ExtractIdle /\ KeyIdle /\ MailIdle

NextExpand == ExpandNext /\ UNCHANGED <<jobVars, handlerVars, dlVars, extractVars, keyVars, mailVars>>

SpecExpand == InitExpand /\ [][NextExpand]_vars

\* =========================== approve.py extract_and_validate_approval_data
\* lines 172-220 with extract_log_period (268-351) run pass by pass.  The
\* mail body is the text that follows the period marker, cut into the pieces
\* the four regular expressions can tell apart.

MaxBody == 4

Chars(kind) ==
    IF kind = "tmpl" THEN <<"y", "y", "y", "y", "-", "m", "m", "-", "d", "d">>
    ELSE IF kind = "dq" THEN <<"\"">>
    ELSE IF kind = "sq" THEN <<"'">>
    ELSE IF kind = "word"
         THEN <<"i", "n", "v", "a", "l", "i", "d", "-", "d", "a", "t", "e">>
    ELSE <<"[">>

\* a piece of text matched by \d{4}-\d{2}-\d{2}
DateTok(text) == [kind |-> "date", text |-> text]

\* 2024-02-30 has the shape of a date and is none
BodyTokens ==
    {DateTok(strftime(d, "%Y-%m-%d")) : d \in ExpandDates}
    \cup {DateTok(strftime(<<2024, 2, 30>>, "%Y-%m-%d"))}
    \cup {[kind |-> k, text |-> Chars(k)] : k \in {"tmpl", "dq", "sq", "word", "marker"}}

\* datetime.now() of the invocation
NowDates == {<<2024, 3, 1>>}

\* now - timedelta(days=1)
PrevDay(d) ==
    IF d[3] > 1 THEN <<d[1], d[2], d[3] - 1>>
    ELSE IF d[2] > 1 THEN <<d[1], d[2] - 1, DaysInMonth(d[1], d[2] - 1)>>
    ELSE <<d[1] - 1, 12, 31>>

\* the character offset of piece i, 0-based as match.start()
RECURSIVE Offset(_, _)
Offset(section, i) ==
    IF i <= 1 THEN 0 ELSE Offset(section, i - 1) + Len(section[i - 1].text)

\* line 272: (.*?)(?=【|$) keeps the text up to the next marker
RECURSIVE UpToMarker(_)
UpToMarker(body) ==
    IF body = <<>> \/ Head(body).kind = "marker" THEN <<>>
    ELSE <<Head(body)>> \o UpToMarker(Tail(body))

KindAt(section, i) == IF i \in 1..Len(section) THEN section[i].kind ELSE "end"

\* lines 279-284: the types of date_patterns, in list order
date_types == <<"template_double", "template_single", "template_none", "actual_date">>

\* number of pieces a match of the pattern of this type spans at piece i,
\* 0 when the pattern does not match there
MatchSpan(section, i, type) ==
    IF type = "template_double"
    THEN (IF /\ KindAt(section, i) = "dq" /\ KindAt(section, i + 1) = "tmpl"
             /\ KindAt(section, i + 2) = "dq" THEN 3 ELSE 0)
    ELSE IF type = "template_single"
    THEN (IF /\ KindAt(section, i) = "sq" /\ KindAt(section, i + 1) = "tmpl"
             /\ KindAt(section, i + 2) = "sq" THEN 3 ELSE 0)
    ELSE IF type = "template_none"
    THEN (IF /\ KindAt(section, i) = "tmpl"
             /\ KindAt(section, i + 1) \notin {"dq", "sq"} THEN 1 ELSE 0)
    ELSE (IF KindAt(section, i) = "date" THEN 1 ELSE 0)

RECURSIVE TextOf(_, _, _)
TextOf(section, i, n) ==
    IF n = 0 THEN <<>> ELSE section[i].text \o TextOf(section, i + 1, n - 1)

\* re.finditer(pattern, period_section): non-overlapping matches, left to
\* right, each as (match_text, date_type, match_pos)
RECURSIVE finditer(_, _, _)
finditer(section, type, i) ==
    IF i > Len(section) THEN <<>>
    ELSE LET n == MatchSpan(section, i, type)
         IN IF n = 0 THEN finditer(section, type, i + 1)
            ELSE <<[text |-> TextOf(section, i, n), type |-> type,
                    pos |-> Offset(section, i)]>>
                 \o finditer(section, type, i + n)

Abs(x) == IF x < 0 THEN 0 - x ELSE x

\* line 294: abs(match_pos - pos) < 5
dedupe_distance == 5

\* lines 291-296: a match is kept unless one already kept starts less than
\* 5 characters away
RECURSIVE KeepMatches(_, _)
KeepMatches(found, matches) ==
    IF matches = <<>> THEN found
    ELSE LET m == Head(matches)
             dup == \E j \in 1..Len(found) : Abs(m.pos - found[j].pos) < dedupe_distance
         IN KeepMatches(IF dup THEN found ELSE Append(found, m), Tail(matches))

RECURSIVE InsertByPos(_, _, _)
InsertByPos(sorted, m, before) ==
    IF sorted = <<>> THEN <<m>>
    ELSE IF before[m.pos, Head(sorted).pos] THEN <<m>> \o sorted
    ELSE <<Head(sorted)>> \o InsertByPos(Tail(sorted), m, before)

RECURSIVE SortWith(_, _)
SortWith(found, before) ==
    IF found = <<>> THEN <<>>
    ELSE InsertByPos(SortWith(SubSeq(found, 1, Len(found) - 1), before),
                     found[Len(found)], before)

Positions(found) == {found[j].pos : j \in 1..Len(found)}

\* the matches ordered from the end of the section to its start
sort_by_position_descending(found) ==
    SortWith(found, [a \in Positions(found), b \in Positions(found) |-> a > b])

\* line 299: found_dates.sort(key=lambda x: x[2])
sort_by_position(found) ==
    SortWith(found, [a \in Positions(found), b \in Positions(found) |-> a < b])

\* one warning for every date beyond the second
multiplicity_warnings_per_date(n) == IF n > 2 THEN n - 2 ELSE 0

\* lines 309-310: logger.warning is called once when more than two are found
multiplicity_warnings(n) == IF n > 2 THEN 1 ELSE 0

\* only the quoted placeholders count as templates
is_template_quoted_only(type) == type \in {"template_double", "template_single"}

\* lines 317-318: first_type.startswith('template')
is_template(type) == type \in {"template_double", "template_single", "template_none"}

Val(c) == CHOOSE n \in 0..9 : DigitChar(n) = c

IsDigit(c) == \E n \in 0..9 : DigitChar(n) = c

\* datetime.strptime(text, "%Y-%m-%d"): NoDate stands for its ValueError
strptime(text) ==
    IF /\ Len(text) = 10
       /\ \A j \in {1, 2, 3, 4, 6, 7, 9, 10} : IsDigit(text[j])
       /\ text[5] = "-" /\ text[8] = "-"
    THEN LET y == Val(text[1]) * 1000 + Val(text[2]) * 100 + Val(text[3]) * 10 + Val(text[4])
             m == Val(text[6]) * 10 + Val(text[7])
             d == Val(text[9]) * 10 + Val(text[10])
         IN IF m \in 1..12 /\ d \in 1..DaysInMonth(y, m) THEN <<y, m, d>> ELSE NoDate
    ELSE NoDate

NoPeriod == [kind |-> "none", from_date |-> <<>>, to_date |-> <<>>,
             from_src |-> "none", to_src |-> "none", message |-> "none"]

PeriodReturned(f, fsrc, t, tsrc) ==
    [kind |-> "returned", from_date |-> f, to_date |-> t,
     from_src |-> fsrc, to_src |-> tsrc, message |-> "none"]

PeriodRaised(msg) ==
    [kind |-> "raised", from_date |-> <<>>, to_date |-> <<>>,
     from_src |-> "none", to_src |-> "none", message |-> msg]

ExtractInit ==
    /\ xp_pc = "reason"
    /\ xp_body \in SeqsUpTo(BodyTokens, MaxBody)
    /\ xp_reason \in {"", "reason"}
    /\ xp_sender \in {"user@example.com", "invalid-email"}
    /\ xp_now \in NowDates
    /\ period_section = <<>>
    /\ xp_k = 1
    /\ found_dates = <<>>
    /\ xp_warnings = 0
    /\ xp_period = NoPeriod
    /\ xp_result = NoError

\* lines 176-179: extract_reason; an empty reason is refused with 400
EV_ExtractReason ==
    /\ xp_pc = "reason"
    /\ IF xp_reason = ""
       THEN xp_pc' = "done" /\ xp_result' = Err(400, "reason")
       ELSE xp_pc' = "section" /\ UNCHANGED xp_result
    /\ UNCHANGED <<xp_body, xp_reason, xp_sender, xp_now, period_section, xp_k, found_dates,
                   xp_warnings, xp_period>>

\* lines 272-276: the period section
XP_PeriodSection ==
    /\ xp_pc = "section"
    /\ period_section' = UpToMarker(xp_body)
    /\ xp_pc' = "scan"
    /\ UNCHANGED <<xp_body, xp_reason, xp_sender, xp_now, xp_k, found_dates, xp_warnings,
                   xp_period, xp_result>>

\* lines 288-296: one pass of the outer for loop, over one pattern
XP_ScanPattern ==
    /\ xp_pc = "scan"
    /\ xp_k <= Len(date_types)
    /\ found_dates' = KeepMatches(found_dates, finditer(period_section, date_types[xp_k], 1))
    /\ xp_k' = xp_k + 1
    /\ UNCHANGED <<xp_pc, xp_body, xp_reason, xp_sender, xp_now, period_section, xp_warnings,
                   xp_period, xp_result>>

\* lines 299-343: sort, count, warn, refuse a mixed pair, fill in defaults
XP_Decide ==
    /\ xp_pc = "scan"
    /\ xp_k > Len(date_types)
    /\ LET sorted == sort_by_position(found_dates)
       IN /\ found_dates' = sorted
          /\ IF Len(sorted) < 2
             THEN /\ xp_period' = PeriodRaised(IF Len(sorted) = 0 THEN "no_date" ELSE "one_date")
                  /\ UNCHANGED xp_warnings
             ELSE /\ xp_warnings' = xp_warnings + multiplicity_warnings(Len(sorted))
                  /\ LET first == sorted[1]
                         second == sorted[2]
                     IN xp_period' =
                          IF is_template(first.type) # is_template(second.type)
                          THEN PeriodRaised("mixed")
                          ELSE PeriodReturned(
                                 IF is_template(first.type)
                                 THEN strftime(PrevDay(xp_now), "%Y-%m-%d") ELSE first.text,
                                 IF is_template(first.type) THEN "default" ELSE "literal",
                                 IF is_template(second.type)
                                 THEN strftime(xp_now, "%Y-%m-%d") ELSE second.text,
                                 IF is_template(second.type) THEN "default" ELSE "literal")
    /\ xp_pc' = "validate"
    /\ UNCHANGED <<xp_body, xp_reason, xp_sender, xp_now, period_section, xp_k, xp_result>>

\* lines 182-220: a ValueError of extract_log_period is no ValidationError
\* and no APIException, the last except clause turns it into 422; strptime
\* failures become 400; ApprovalData validates the sender and the range
EV_Validate ==
    /\ xp_pc = "validate"
    /\ xp_result' =
         IF xp_period.kind = "raised" THEN Err(422, "extract_failed")
         ELSE LET f == strptime(xp_period.from_date)
                  t == strptime(xp_period.to_date)
              IN IF f = NoDate \/ t = NoDate THEN Err(400, "date_format")
                 ELSE IF xp_sender = "invalid-email" \/ ~DateLeq(f, t)
                 THEN Err(400, "validation")
                 ELSE Err(0, "validated")
    /\ xp_pc' = "done"
    /\ UNCHANGED <<xp_body, xp_reason, xp_sender, xp_now, period_section, xp_k, found_dates,
                   xp_warnings, xp_period>>

ExtractNext ==
    \/ EV_ExtractReason
    \/ XP_PeriodSection
    \/ XP_ScanPattern
    \/ XP_Decide
    \/ EV_Validate

InitExtract == JobIdle /\ HandlerIdle /\ DownloadIdle /\ ExpandIdle /\ ExtractInit /\ KeyIdle /\ MailIdle

NextExtract == ExtractNext /\ UNCHANGED <<jobVars, handlerVars, dlVars, expandVars, keyVars, mailVars>>

SpecExtract == InitExtract /\ [][NextExtract]_vars



\* ================================ lambda_handler with the transfers inside
\* get-log.py 64-115 from its first statement, process_servers_logs step by
\* step and, for every host, download_logs_from_server with its connection
\* attempts and its two workers.

MaxTermServers == 2

TerminateInit ==
    /\ Len(servers) <= MaxTermServers
    /\ \A h \in 1..Len(servers) : servers[h] \in {<<>>, <<4>>, <<6>>, <<4, 6>>}
    /\ handler = "get_log"
    /\ hpc = "env"
    /\ from_date = 1
    /\ to_date = 1
    /\ ev_source = "user@example.com"
    /\ ev_subject = "systemA"
    /\ n_hosts = Len(servers)
    /\ sender_email = "None"
    /\ mail_subject = "None"
    /\ error = NoError
    /\ notify_calls = 0
    /\ notify_failed = FALSE
    /\ result = NoResult
    /\ contacted = {}
    /\ approval_sent = FALSE
    /\ acceptance_sent = FALSE

\* the locals of download_logs_from_server when the call is over
DownloadOver ==
    /\ dl_paths' = <<>>
    /\ dl_pc' = "idle"
    /\ attempt' = 0
    /\ retry_delay' = 5
    /\ sleeps' = <<>>
    /\ f_state' = <<>>
    /\ f_attempt' = <<>>
    /\ dl_tmp' = {}
    /\ dl_downloaded_files' = <<>>
    /\ total_storage_used' = 0
    /\ sftp_ok' = {}
    /\ connects' = <<>>

\* lines 64-97 and 98-115: the stages of the handler before and after
\* process_servers_logs
TM_HandlerStep ==
    /\ \/ GL_ValidateEnvironment
       \/ GL_ParseSesEvent
       \/ GL_GetEmailBody
       \/ GL_ExtractJson
       \/ GL_ParseDates
       \/ GL_GetConfig
       \/ GL_JobCompletes
       \/ GL_SendSuccessNotifications
       \/ GL_HandleError
    /\ UNCHANGED <<jobVars, dlVars>>

\* lines 325-327: get_credentials_from_ssm, get_ssh_auth or expand_log_paths
\* raises
TM_ResolveFails ==
    /\ hpc = "retrieval"
    /\ dl_pc = "idle"
    /\ ProcessSingleServerRaises
    /\ UNCHANGED <<handlerVars, dlVars>>

\* line 333: download_logs_from_server is called with the host's paths
TM_DownloadStarts ==
    /\ hpc = "retrieval"
    /\ pc = "loop"
    /\ hostIdx <= Len(servers)
    /\ dl_pc = "idle"
    /\ dl_paths' = servers[hostIdx]
    /\ dl_pc' = "connect"
    /\ f_state' = [k \in 1..Len(servers[hostIdx]) |-> "queued"]
    /\ f_attempt' = [k \in 1..Len(servers[hostIdx]) |-> 0]
    /\ UNCHANGED <<attempt, retry_delay, sleeps, dl_tmp, dl_downloaded_files,
                   total_storage_used, sftp_ok, connects>>
    /\ UNCHANGED <<jobVars, handlerVars>>

\* lines 355-446: one step of the connection loop or of a worker
TM_DownloadStep ==
    /\ DownloadNext
    /\ UNCHANGED <<jobVars, handlerVars>>

\* line 395: the descriptors come back to process_servers_logs
TM_DownloadReturned ==
    /\ dl_pc = "returned"
    /\ ServerReturns({<<hostIdx, dl_downloaded_files[j].original_path>> :
                         j \in 1..Len(dl_downloaded_files)})
    /\ DownloadOver
    /\ UNCHANGED handlerVars

\* line 406: the third connection attempt failed
TM_DownloadRaised ==
    /\ dl_pc = "raised"
    /\ ProcessSingleServerRaises
    /\ DownloadOver
    /\ UNCHANGED handlerVars

\* lines 276-317 of process_servers_logs
TM_JobStep ==
    /\ hpc = "retrieval"
    /\ \/ AddFiles
       \/ FlushCreatePartZip
       \/ FlushUpload
       \/ ReturnWithoutArchive
       \/ FinalCreateZip
       \/ FinalUpload
    /\ UNCHANGED <<handlerVars, dlVars>>

InitTerminate == JobInit /\ TerminateInit /\ DownloadIdle /\ ExpandIdle /\ ExtractIdle /\ KeyIdle /\ MailIdle

NextTerminate ==
    /\ \/ TM_HandlerStep
       \/ TM_ResolveFails
       \/ TM_DownloadStarts
       \/ TM_DownloadStep
       \/ TM_DownloadReturned
       \/ TM_DownloadRaised
       \/ TM_JobStep
    /\ UNCHANGED <<expandVars, extractVars, keyVars, mailVars>>

\* the handler runs in one Lambda invocation: the main thread and the pool
\* workers keep being scheduled, and every library call returns or raises
SpecTerminate == InitTerminate /\ [][NextTerminate]_vars /\ WF_vars(NextTerminate)

\* ========================================================== get_ssh_auth
\* get-log.py 218-258.  What a parser makes of the key text is an input:
\* from_private_key either returns a key or raises SSHException.

\* the parsers with DSA tried before ECDSA
key_parsers_dsa_before_ecdsa == <<"RSA", "Ed25519", "DSA", "ECDSA">>

\* the nesting of the try blocks of lines 230-254
key_parsers == <<"RSA", "Ed25519", "ECDSA", "DSA">>

KeyInit ==
    /\ ky_pc = "start"
    /\ ky_credentials \in [has_password : BOOLEAN, has_client_cert : BOOLEAN,
                            decodes : BOOLEAN, parses : SUBSET {"RSA", "Ed25519", "ECDSA", "DSA"},
                            username : {"None", "ops"}]
    /\ ky_i = 0
    /\ ky_tried = <<>>
    /\ ky_result = [kind |-> "none", detail |-> "none", username |-> "None"]

\* lines 222-223: a password wins over key material
KY_ReturnPassword ==
    /\ ky_pc = "start"
    /\ ky_credentials.has_password
    /\ ky_pc' = "returned"
    /\ ky_result' = [kind |-> "password", detail |-> "password",
                     username |-> ky_credentials.username]
    /\ UNCHANGED <<ky_credentials, ky_i, ky_tried>>

\* lines 224-227: base64 and utf-8 decoding of client_cert; a decoding error
\* is not caught in get_ssh_auth
KY_DecodeKey ==
    /\ ky_pc = "start"
    /\ ~ky_credentials.has_password
    /\ ky_credentials.has_client_cert
    /\ IF ky_credentials.decodes
       THEN /\ ky_pc' = "parse"
            /\ ky_i' = 1
            /\ UNCHANGED ky_result
       ELSE /\ ky_pc' = "raised"
            /\ ky_result' = [kind |-> "error", detail |-> "decode",
                             username |-> ky_credentials.username]
            /\ UNCHANGED ky_i
    /\ UNCHANGED <<ky_credentials, ky_tried>>

\* lines 230-256: one from_private_key call; on SSHException the read
\* position is reset and the next parser is tried, after the last one
\* ValueError is raised
KY_TryParser ==
    /\ ky_pc = "parse"
    /\ LET p == key_parsers[ky_i]
       IN /\ ky_tried' = Append(ky_tried, p)
          /\ IF p \in ky_credentials.parses
             THEN /\ ky_pc' = "returned"
                  /\ ky_result' = [kind |-> "pkey", detail |-> p,
                                   username |-> ky_credentials.username]
                  /\ UNCHANGED ky_i
             ELSE IF ky_i < Len(key_parsers)
             THEN /\ ky_i' = ky_i + 1
                  /\ UNCHANGED <<ky_pc, ky_result>>
             ELSE /\ ky_pc' = "raised"
                  /\ ky_result' = [kind |-> "error", detail |-> "unsupported_key",
                                   username |-> ky_credentials.username]
                  /\ UNCHANGED ky_i
    /\ UNCHANGED ky_credentials

\* lines 257-258: neither a password nor key material
KY_UnsupportedAuth ==
    /\ ky_pc = "start"
    /\ ~ky_credentials.has_password
    /\ ~ky_credentials.has_client_cert
    /\ ky_pc' = "raised"
    /\ ky_result' = [kind |-> "error", detail |-> "unsupported_auth",
                     username |-> ky_credentials.username]
    /\ UNCHANGED <<ky_credentials, ky_i, ky_tried>>

InitKey == JobIdle /\ HandlerIdle /\ DownloadIdle /\ ExpandIdle /\ ExtractIdle /\ KeyInit /\ MailIdle

NextKey ==
    /\ KY_ReturnPassword \/ KY_DecodeKey \/ KY_TryParser \/ KY_UnsupportedAuth
    /\ UNCHANGED <<jobVars, handlerVars, dlVars, expandVars, extractVars, mailVars>>

SpecKey == InitKey /\ [][NextKey]_vars

\* ============== create_mailto_link (approve.py) -> extract_json_from_email
\* approve.py 414-442 writes the reply draft, the applicant's mail client
\* opens it and sends it, get-log.py 164-195 reads the JSON back.  Texts are
\* sequences of characters.

MaxContent == 2

\* ApprovalData.content: min_length = 1; the characters are a letter, the
\* braces, the quote and a carriage return
Contents == {t \in SeqsUpTo({"a", "{", "}", "\"", "\r"}, MaxContent) : t # <<>>}

\* the concatenation of a sequence of texts
RECURSIVE Concat(_)
Concat(ts) ==
    IF ts = <<>> THEN <<>>
    ELSE IF Len(ts) = 1 THEN ts[1]
    ELSE Concat(SubSeq(ts, 1, Len(ts) \div 2))
         \o Concat(SubSeq(ts, Len(ts) \div 2 + 1, Len(ts)))

\* value.replace('\r\n', '\n').replace('\r', '\n'): the "\n" of a "\r\n"
\* goes, every "\r" becomes "\n"
normalize_newlines(value) ==
    Concat([j \in 1..Len(value) |->
               IF value[j] = "\r" THEN <<"\n">>
               ELSE IF value[j] = "\n" /\ j > 1 /\ value[j - 1] = "\r" THEN <<>>
               ELSE <<value[j]>>])

\* body_json of lines 425-431, keys in insertion order
body_json(a) ==
    << << <<"m", "a", "i", "l">>, a.mail >>,
       << <<"c", "o", "n", "t", "e", "n", "t">>, normalize_newlines(a.content) >>,
       << <<"s", "y", "s", "t", "e", "m">>, a.system >>,
       << <<"f", "r", "o", "m", "_", "d", "a", "t", "e">>, strftime(a.from_date, "%Y-%m-%d") >>,
       << <<"t", "o", "_", "d", "a", "t", "e">>, strftime(a.to_date, "%Y-%m-%d") >> >>

\* json.dumps(body_json, ensure_ascii=False): every key and value in quotes
\* with its characters escaped, ": " and ", " as separators
json_dumps(items) ==
    LET JsonEscape(c) ==
            IF c = "\"" THEN <<"\\", "\"">>
            ELSE IF c = "\\" THEN <<"\\", "\\">>
            ELSE IF c = "\n" THEN <<"\\", "n">>
            ELSE IF c = "\r" THEN <<"\\", "r">>
            ELSE <<c>>
        JsonString(t) ==
            <<"\"">> \o Concat([j \in 1..Len(t) |-> JsonEscape(t[j])]) \o <<"\"">>
    IN <<"{">>
       \o Concat([j \in 1..Len(items) |->
                     JsonString(items[j][1]) \o <<":", " ">> \o JsonString(items[j][2])
                     \o (IF j < Len(items) THEN <<",", " ">> ELSE <<>>)])
       \o <<"}">>

\* the characters urllib.parse.quote escapes, with their two hex digits
PercentCodes ==
    { <<"{", "7", "B">>, <<"}", "7", "D">>, <<"\"", "2", "2">>, <<" ", "2", "0">>,
      <<":", "3", "A">>, <<",", "2", "C">>, <<"\\", "5", "C">>, <<"@", "4", "0">>,
      <<"%", "2", "5">>, <<"\n", "0", "A">>, <<"\r", "0", "D">> }

\* urllib.parse.quote
quote(t) ==
    Concat([j \in 1..Len(t) |->
               IF \E e \in PercentCodes : e[1] = t[j]
               THEN LET e == CHOOSE e \in PercentCodes : e[1] = t[j]
                    IN <<"%", e[2], e[3]>>
               ELSE <<t[j]>>])

\* the decoding of a mailto link by the mail client (urllib.parse.unquote):
\* a "%" with two hex digits becomes its character, every other character
\* stays
unquote(t) ==
    LET EscapeAt(j) ==
            /\ j >= 1
            /\ j + 2 <= Len(t)
            /\ t[j] = "%"
            /\ \E e \in PercentCodes : e[2] = t[j + 1] /\ e[3] = t[j + 2]
    IN Concat([j \in 1..Len(t) |->
                  IF EscapeAt(j)
                  THEN <<(CHOOSE e \in PercentCodes : e[2] = t[j + 1] /\ e[3] = t[j + 2])[1]>>
                  ELSE IF EscapeAt(j - 1) \/ EscapeAt(j - 2) THEN <<>>
                  ELSE <<t[j]>>])

\* mail_body.find('{'), -1 if there is none
find(t, c) ==
    IF \E j \in 1..Len(t) : t[j] = c
    THEN (CHOOSE j \in 1..Len(t) : t[j] = c /\ \A l \in 1..(j - 1) : t[l] # c) - 1
    ELSE -1

\* json.loads of an object of strings: the dict as a set of key-value
\* pairs, or a failure for text that is not one JSON document
json_loads(t) ==
    LET ParseFailed == [ok |-> FALSE, val |-> <<>>, next |-> 0]
        RECURSIVE SkipWs(_)
        SkipWs(i) ==
            IF i <= Len(t) /\ t[i] \in {" ", "\n", "\r", "\t"} THEN SkipWs(i + 1) ELSE i
        \* the characters of a string literal from position i to its closing quote
        RECURSIVE StrBody(_, _)
        StrBody(i, acc) ==
            IF i > Len(t) THEN ParseFailed
            ELSE IF t[i] = "\"" THEN [ok |-> TRUE, val |-> acc, next |-> i + 1]
            ELSE IF t[i] = "\\"
            THEN IF i + 1 > Len(t) THEN ParseFailed
                 ELSE IF t[i + 1] \in {"\"", "\\"} THEN StrBody(i + 2, Append(acc, t[i + 1]))
                 ELSE IF t[i + 1] = "n" THEN StrBody(i + 2, Append(acc, "\n"))
                 ELSE IF t[i + 1] = "r" THEN StrBody(i + 2, Append(acc, "\r"))
                 ELSE ParseFailed
            ELSE IF t[i] \in {"\n", "\r", "\t"} THEN ParseFailed
            ELSE StrBody(i + 1, Append(acc, t[i]))
        ParseStr(i) == IF i <= Len(t) /\ t[i] = "\"" THEN StrBody(i + 1, <<>>) ELSE ParseFailed
        DictSet(items, k, v) == {e \in items : e[1] # k} \cup {<<k, v>>}
        \* the members of an object from position i, the start of a key
        RECURSIVE ParseMembers(_, _)
        ParseMembers(i, items) ==
            LET key == ParseStr(i)
                colon == SkipWs(key.next)
                value == ParseStr(SkipWs(colon + 1))
                after == SkipWs(value.next)
            IN IF ~key.ok \/ colon > Len(t) \/ t[colon] # ":" THEN ParseFailed
               ELSE IF ~value.ok \/ after > Len(t) THEN ParseFailed
               ELSE IF t[after] = ","
               THEN ParseMembers(SkipWs(after + 1), DictSet(items, key.val, value.val))
               ELSE IF t[after] = "}"
               THEN [ok |-> TRUE, val |-> DictSet(items, key.val, value.val), next |-> after + 1]
               ELSE ParseFailed
        open == SkipWs(1)
        first == SkipWs(open + 1)
        parsed == IF first <= Len(t) /\ t[first] = "}"
                  THEN [ok |-> TRUE, val |-> {}, next |-> first + 1]
                  ELSE ParseMembers(first, {})
    IN IF open > Len(t) \/ t[open] # "{" THEN ParseFailed
       ELSE IF parsed.ok /\ SkipWs(parsed.next) > Len(t) THEN parsed
       ELSE ParseFailed

\* ---------------------------------------------------------------- actions
MailInit ==
    /\ ml_pc = "start"
    /\ approval_data \in {a \in [mail : {<<"u", "@", "x">>}, content : Contents,
                                system : {<<"s">>}, from_date : ExpandDates,
                                to_date : ExpandDates] : DateLeq(a.from_date, a.to_date)}
    /\ ml_around \in {<< <<>>, <<>> >>, << <<"o", "k", "\n">>, <<"\n", "-", "-">> >>}
    /\ ml_body = <<>>
    /\ mailto_link = <<>>
    /\ mail_body = <<>>
    /\ start_idx = -1
    /\ ml_i = 0
    /\ brace_count = 0
    /\ end_idx = -1
    /\ ml_result = [kind |-> "none", items |-> {}, status_code |-> 0]

\* approve.py 414-442; the link is kept as its query parameters
create_mailto_link ==
    /\ ml_pc = "start"
    /\ ml_body' = json_dumps(body_json(approval_data))
    /\ mailto_link' = <<quote(<<"A", "P", "I", ":", " ">> \o approval_data.system),
                        quote(ml_body')>>
    /\ ml_pc' = "draft"
    /\ UNCHANGED <<approval_data, ml_around, mail_body, start_idx, ml_i, brace_count,
                   end_idx, ml_result>>

\* the applicant opens the link and sends the draft: the mail carries the
\* decoded body parameter
ML_SendReply ==
    /\ ml_pc = "draft"
    /\ mail_body' = ml_around[1] \o unquote(mailto_link[2]) \o ml_around[2]
    /\ ml_pc' = "extract"
    /\ UNCHANGED <<approval_data, ml_around, ml_body, mailto_link, start_idx, ml_i,
                   brace_count, end_idx, ml_result>>

ApiException400 == [kind |-> "APIException", items |-> {}, status_code |-> 400]

\* get-log.py 168-174
XJ_FindStart ==
    /\ ml_pc = "extract"
    /\ start_idx' = find(mail_body, "{")
    /\ IF start_idx' = -1
       THEN ml_pc' = "done" /\ ml_result' = ApiException400 /\ UNCHANGED ml_i
       ELSE ml_pc' = "scan" /\ ml_i' = start_idx' /\ UNCHANGED ml_result
    /\ UNCHANGED <<approval_data, ml_around, ml_body, mailto_link, mail_body,
                   brace_count, end_idx>>

\* get-log.py 176-183: one iteration of the loop over mail_body
XJ_ScanChar ==
    /\ ml_pc = "scan"
    /\ ml_i < Len(mail_body)
    /\ LET c == mail_body[ml_i + 1]
           count == IF c = "{" THEN brace_count + 1
                    ELSE IF c = "}" THEN brace_count - 1
                    ELSE brace_count
       IN /\ brace_count' = count
          /\ IF c = "}" /\ count = 0
             THEN end_idx' = ml_i /\ ml_pc' = "loads" /\ UNCHANGED ml_i
             ELSE ml_i' = ml_i + 1 /\ UNCHANGED <<end_idx, ml_pc>>
    /\ UNCHANGED <<approval_data, ml_around, ml_body, mailto_link, mail_body, start_idx,
                   ml_result>>

\* get-log.py 185-186, 193-195: the loop ended without a closing brace
XJ_NoClosingBrace ==
    /\ ml_pc = "scan"
    /\ ml_i >= Len(mail_body)
    /\ ml_pc' = "done"
    /\ ml_result' = ApiException400
    /\ UNCHANGED <<approval_data, ml_around, ml_body, mailto_link, mail_body, start_idx,
                   ml_i, brace_count, end_idx>>

\* get-log.py 188-195: json.loads of the slice; a parse error becomes
\* APIException(400)
XJ_Loads ==
    /\ ml_pc = "loads"
    /\ LET json_str == SubSeq(mail_body, start_idx + 1, end_idx + 1)
           parsed == json_loads(json_str)
       IN ml_result' = IF parsed.ok
                       THEN [kind |-> "dict", items |-> parsed.val, status_code |-> 0]
                       ELSE ApiException400
    /\ ml_pc' = "done"
    /\ UNCHANGED <<approval_data, ml_around, ml_body, mailto_link, mail_body, start_idx,
                   ml_i, brace_count, end_idx>>

InitMail == JobIdle /\ HandlerIdle /\ DownloadIdle /\ ExpandIdle /\ ExtractIdle /\ KeyIdle /\ MailInit

NextMail ==
    /\ \/ create_mailto_link
       \/ ML_SendReply
       \/ XJ_FindStart
       \/ XJ_ScanChar
       \/ XJ_NoClosingBrace
       \/ XJ_Loads
    /\ UNCHANGED <<jobVars, handlerVars, dlVars, expandVars, extractVars, keyVars>>

SpecMail == InitMail /\ [][NextMail]_vars

Finished == pc \in {"returned", "raised"}

\* the files of all published archives
RECURSIVE UploadedFiles(_)
UploadedFiles(u) ==
    IF u = <<>> THEN {} ELSE Head(u).files \cup UploadedFiles(Tail(u))

RECURSIVE UploadedCount(_)
UploadedCount(u) ==
    IF u = <<>> THEN 0 ELSE Cardinality(Head(u).files) + UploadedCount(Tail(u))

\* ------------------------------------------------------------ properties

\* C1: when process_servers_logs has finished (returned or raised), no temp
\* file of a DownloadedFile returned by process_single_server is on disk.
C1_NoTempFileLeft == Finished => tmp_files \cap returned_files = {}

\* C2: when process_servers_logs has finished, every zip that
\* create_part_zip / create_single_zip created has been removed from disk.
C2_NoZipLeft == Finished => \A z \in DOMAIN tmp_zips : ~tmp_zips[z].complete

\* C3: after any sequence of per-server additions and flushes, the running
\* counter never exceeds the ceiling by more than the largest file of the
\* server whose budget check produced the counter's value.
C3_BudgetInvariant ==
    current_storage_usage <= lambda_storage_limit + trigger_largest

SplitScenario ==
    /\ Len(servers) = 2
    /\ SumSizes(FilesOfHost(1)) = 6
    /\ SumSizes(FilesOfHost(2)) = 4
    /\ server_ok = {1, 2}
    /\ failures = {}
    /\ pc = "returned"

\* C4: servers A (6 GiB) then B (4 GiB), both succeeding, budget 8 GiB:
\* exactly two archives, part 1 with A's files and part 2 with B's files,
\* created with the same password.
C4_SplitScenario ==
    SplitScenario =>
        /\ zip_files = <<PartName(1), PartName(2)>>
        /\ Len(uploaded) = 2
        /\ uploaded[1].name = PartName(1) /\ uploaded[1].files = FilesOfHost(1)
        /\ uploaded[2].name = PartName(2) /\ uploaded[2].files = FilesOfHost(2)
        /\ uploaded[1].password = uploaded[2].password

C4_Witness == SplitScenario /\ tmp_files = {}

\* C6: an archive-creation or upload failure at any point terminates
\* process_servers_logs with an exception.
C6_ArchiveFailurePropagates == (Finished /\ failures # {}) => pc = "raised"

\* C7: with credential / transfer failures as the only failures of the job,
\* the job is not aborted, every server is processed, and the published
\* archives hold exactly the files of the servers that succeeded, once each.
C7_ServerFailureSkipped ==
    (Finished /\ failures = {}) =>
        /\ pc = "returned"
        /\ server_ok \cup server_failed = 1..Len(servers)
        /\ UploadedFiles(uploaded) = UNION {FilesOfHost(h) : h \in server_ok}
        /\ UploadedCount(uploaded) = Cardinality(UploadedFiles(uploaded))

C7_Witness ==
    /\ pc = "returned"
    /\ failures = {}
    /\ \E f \in server_failed : \E a, b \in server_ok :
          a < f /\ f < b /\ FilesOfHost(a) # {} /\ FilesOfHost(b) # {}
    /\ uploaded # <<>>

\* C5: a request whose to_date is earlier than its from_date never reaches
\* the approvers (approve.py) and never has a server contacted (get-log.py).
C5_PeriodOrdered ==
    /\ (handler = "approve" /\ approval_sent) => from_date <= to_date
    /\ (handler = "get_log" /\ contacted # {}) => from_date <= to_date

\* C8: a handler that returns an error result has attempted a failure
\* notification before, whatever stage failed.
C8_FailureNotified == (hpc = "done" /\ error # NoError) => notify_calls >= 1

\* the error result each handler builds from the exception it caught
ErrorResult ==
    IF handler = "get_log"
    THEN [status |-> "Error", message |-> error.message]
    ELSE [status |-> error.status_code, message |-> error.message]

\* C9: the handlers never raise, and the result of a failed job carries the
\* status and message of the original error, also when the failure
\* notification itself failed.
C9_NotificationFailureSwallowed ==
    /\ hpc # "raised"
    /\ (hpc = "done" /\ error # NoError) => result = ErrorResult

C9_Witness ==
    /\ hpc = "done"
    /\ handler = "get_log"
    /\ notify_failed
    /\ notify_calls = 1
    /\ result = [status |-> "Error", message |-> "retrieval"]

\* the paths of the descriptors download_logs_from_server returns
RECURSIVE ReturnedPaths(_)
ReturnedPaths(d) ==
    IF d = <<>> THEN {} ELSE {Head(d).original_path} \cup ReturnedPaths(Tail(d))

\* C10: download_logs_from_server returns exactly the paths whose download
\* succeeded, each once, skipping those whose retries are exhausted; it
\* raises only when the connection failed, never because of file failures.
C10_FilePartialSuccess ==
    /\ dl_pc = "returned" =>
          /\ ReturnedPaths(dl_downloaded_files) = sftp_ok
          /\ Len(dl_downloaded_files) = Cardinality(sftp_ok)
          /\ \A k \in PathIds \ sftp_ok : f_attempt[k] = max_retries - 1
    /\ dl_pc = "raised" => \A k \in PathIds : f_state[k] = "queued"

C10_Witness ==
    /\ dl_pc = "returned"
    /\ \E k \in PathIds : f_state[k] = "collected_err"
    /\ \E k \in PathIds : f_state[k] = "collected_ok"

\* C11: every archive of the job, numbered or not, was created with the
\* one password drawn before the first server, which no flush or failure
\* changes and which process_servers_logs returns.
C11_OnePassword ==
    /\ uuid_calls = 1
    /\ password = Token(1)
    /\ \A i \in 1..Len(uploaded) : uploaded[i].password = password

C11_Witness ==
    /\ pc = "returned"
    /\ Len(uploaded) >= 2
    /\ failures # {}
    /\ password = Token(1)

AllServersFailed == Finished /\ server_ok = {}

\* C12: when every configured server fails, no archive is created and
\* nothing is uploaded, process_servers_logs returns the empty list without
\* raising, and lambda_handler, its success notification delivered, returns
\* status OK.
C12_AllServersFailed ==
    AllServersFailed =>
        /\ pc = "returned"
        /\ zip_files = <<>>
        /\ uploaded = <<>>
        /\ tmp_zips = <<>>
        /\ error.message # "retrieval"
        /\ (hpc = "done" /\ error = NoError) => result.status = "OK"
        /\ (hpc = "done" /\ result.status # "OK") => error = Err(502, "notify")

C12_Witness ==
    /\ AllServersFailed
    /\ Len(servers) >= 2
    /\ server_failed = 1..Len(servers)
    /\ hpc = "done"
    /\ result.status = "OK"

\* ------------------------------------------------------ expand_log_paths

Placeholders == {"yyyy-mm-dd", "yyyymmdd"}

PlaceholderCount(path) == Cardinality({j \in 1..Len(path) : path[j] \in Placeholders})

\* the calendar days of the inclusive period: (to - from).days + 1 of them
PeriodDays == {d \in ExpandDates : DateLeq(ex_from_date, d) /\ DateLeq(d, ex_to_date)}

\* the positions of the result that template i produced
RunOf(i) == {n \in 1..Len(expanded_paths) : ex_origin[n].template = i}

\* template i produced one path per day of the period, ascending
FullRun(i) ==
    /\ Cardinality(RunOf(i)) = Cardinality(PeriodDays)
    /\ {ex_origin[n].date : n \in RunOf(i)} = PeriodDays
    /\ \A n \in RunOf(i) :
          ~Contains(expanded_paths[n], date_patterns(ex_impl)[MatchedPattern(ex_impl, ex_log_paths[i])][1])
    /\ \A n, m \in RunOf(i) :
          n < m => /\ DateLeq(ex_origin[n].date, ex_origin[m].date)
                   /\ ex_origin[n].date # ex_origin[m].date
                   /\ expanded_paths[n] # expanded_paths[m]

\* the runs follow each other in the order of the templates
RunsInTemplateOrder ==
    \A n, m \in 1..Len(expanded_paths) :
        n < m => ex_origin[n].template <= ex_origin[m].template

ExpandDone == ex_pc = "returned"

\* C13: for from_date <= to_date, a template with one date placeholder
\* expands to (to_date - from_date).days + 1 paths, one per calendar day of
\* the period, with distinct dates in ascending order.
C13_ExpansionCount ==
    (/\ ExpandDone
     /\ ex_impl \in {"get_log", "send_approval"}
     /\ DateLeq(ex_from_date, ex_to_date))
    => \A i \in 1..Len(ex_log_paths) :
          (/\ PlaceholderCount(ex_log_paths[i]) = 1
           /\ MatchedPattern(ex_impl, ex_log_paths[i]) # 0) => FullRun(i)

C13_Witness ==
    /\ ExpandDone
    /\ ex_impl = "get_log"
    /\ ex_log_paths = << <<"/var/log/app", "yyyymmdd">> >>
    /\ ex_from_date = <<2024, 2, 29>>
    /\ ex_to_date = <<2024, 3, 1>>
    /\ Len(expanded_paths) = 2
    /\ expanded_paths[2] = <<"/var/log/app", "2", "0", "2", "4", "0", "3", "0", "1">>

\* C14: in the log processor, with to_date present and from_date <= to_date,
\* every template with the placeholder contributes its full run of
\* (to_date - from_date).days + 1 paths, the runs in template order; the
\* second and later runs are as long as the first.
C14_EveryTemplateFullRun ==
    (/\ ExpandDone
     /\ ex_impl = "log_processor"
     /\ ex_to_date # NoDate
     /\ DateLeq(ex_from_date, ex_to_date))
    => /\ RunsInTemplateOrder
       /\ \A i \in 1..Len(ex_log_paths) :
             MatchedPattern(ex_impl, ex_log_paths[i]) # 0 => FullRun(i)

\* C15: a template without date placeholder expands to exactly one path,
\* the template itself, whatever the period (from_date > to_date included),
\* at its place among the other templates' runs.
C15_PassThrough ==
    ExpandDone =>
        /\ RunsInTemplateOrder
        /\ \A i \in 1..Len(ex_log_paths) :
              PlaceholderCount(ex_log_paths[i]) = 0 =>
                  /\ Cardinality(RunOf(i)) = 1
                  /\ \A n \in RunOf(i) : expanded_paths[n] = ex_log_paths[i]

C15_Witness ==
    /\ ExpandDone
    /\ ex_impl = "get_log"
    /\ ~DateLeq(ex_from_date, ex_to_date)
    /\ ex_log_paths = << <<"/var/log/app", "yyyy-mm-dd">>, <<"/var/log/app">> >>
    /\ expanded_paths = << <<"/var/log/app">> >>

\* ---------------------------------------------------- extract_log_period

IsDateTok(t) == t.kind = "date"

\* the literal dates of the period section, in document order
LiteralDates == SelectSeq(period_section, IsDateTok)

NoPlaceholderText == \A j \in 1..Len(period_section) : period_section[j].kind # "tmpl"

\* the type of the date item that starts at piece i, "none" if none does
ItemTypeAt(section, i) ==
    LET hits == {n \in 1..Len(date_types) : MatchSpan(section, i, date_types[n]) > 0}
    IN IF hits = {} THEN "none"
       ELSE date_types[CHOOSE n \in hits : \A o \in hits : n <= o]

\* the date items of a section read once from left to right
RECURSIVE DocumentOrder(_, _)
DocumentOrder(section, i) ==
    IF i > Len(section) THEN <<>>
    ELSE LET type == ItemTypeAt(section, i)
         IN IF type = "none" THEN DocumentOrder(section, i + 1)
            ELSE <<type>> \o DocumentOrder(section, i + MatchSpan(section, i, type))

PeriodDone == xp_period.kind # "none"

\* C16: a period section with exactly two literal dates, and no
\* placeholder, yields them unchanged, the one at the smaller position as
\* from_date and the one at the larger position as to_date.
C16_TwoLiteralDates ==
    (PeriodDone /\ Len(LiteralDates) = 2 /\ NoPlaceholderText)
    => /\ xp_period.kind = "returned"
       /\ xp_period.from_date = LiteralDates[1].text
       /\ xp_period.to_date = LiteralDates[2].text

C16_Witness ==
    /\ PeriodDone
    /\ Len(xp_body) = 4
    /\ xp_body[3].kind = "marker"
    /\ xp_body[4].kind = "date"
    /\ xp_period.kind = "returned"
    /\ xp_period.from_date = strftime(<<2024, 3, 1>>, "%Y-%m-%d")
    /\ xp_period.to_date = strftime(<<2024, 2, 29>>, "%Y-%m-%d")

\* C17: with three or more literal dates in the period section the first
\* two in document order are returned, the later ones are ignored and
\* exactly one warning about the number of dates is logged.
C17_FirstTwoOfMany ==
    (PeriodDone /\ Len(LiteralDates) >= 3 /\ NoPlaceholderText)
    => /\ xp_period.kind = "returned"
       /\ xp_period.from_date = LiteralDates[1].text
       /\ xp_period.to_date = LiteralDates[2].text
       /\ xp_warnings = 1

C17_Witness ==
    /\ PeriodDone
    /\ Len(LiteralDates) = 4
    /\ LiteralDates[3] # LiteralDates[1]
    /\ xp_period.kind = "returned"
    /\ xp_warnings = 1

\* C18: when one of the first two date items in document order is a
\* literal date and the other a placeholder (double-quoted, single-quoted
\* or bare), in either order, extract_log_period raises the mixed-format
\* error; a returned pair is never one literal and one default.
C18_MixedRefused ==
    LET doc == DocumentOrder(period_section, 1)
    IN PeriodDone =>
         /\ (/\ Len(doc) >= 2
             /\ (doc[1] = "actual_date") # (doc[2] = "actual_date"))
            => xp_period = PeriodRaised("mixed")
         /\ xp_period.kind = "returned" => xp_period.from_src = xp_period.to_src

C18_Witness ==
    /\ PeriodDone
    /\ xp_period = PeriodRaised("mixed")
    /\ Len(found_dates) = 2
    /\ found_dates[1].type = "template_none"
    /\ found_dates[2].type = "actual_date"

\* C19: a body whose period section has an unrecognisable FROM value
\* followed by a valid literal TO date is refused by
\* extract_and_validate_approval_data with status 400 and the invalid date
\* format message.
C19_InvalidFromIs400 ==
    (/\ xp_pc = "done"
     /\ xp_reason # ""
     /\ Len(period_section) = 2
     /\ period_section[1].kind = "word"
     /\ period_section[2].kind = "date"
     /\ strptime(period_section[2].text) # NoDate)
    => xp_result = Err(400, "date_format")

\* C20: in approve.py the acceptance notification goes out only after the
\* approval message was sent; the handler answers 200 only when both were
\* sent, and answers 502 when either send failed.
C20_ApprovalBeforeAcceptance ==
    handler = "approve" =>
        /\ acceptance_sent => approval_sent
        /\ hpc = "acceptance" => approval_sent
        /\ hpc # "done" => result = NoResult
        /\ hpc = "done" =>
              /\ result.status = 200 => (approval_sent /\ acceptance_sent)
              /\ error.message \in {"approval", "acceptance"}
                 => (result.status = 502 /\ ~acceptance_sent)

C20_Witness ==
    /\ handler = "approve"
    /\ hpc = "done"
    /\ approval_sent
    /\ ~acceptance_sent
    /\ error = Err(502, "acceptance")
    /\ result.status = 502

\* ---------------------------------------------- download_logs_from_server

FailedConnects == {i \in 1..Len(connects) : connects[i] = "failed"}

\* C21: at most 3 connection attempts per host, none after the first that
\* succeeds; 5 s of waiting after the first failure and 10 s after the
\* second, none after the third; the host's fatal error is raised exactly
\* when all 3 attempts failed.
C21_ConnectionRetry ==
    /\ Len(connects) <= 3
    /\ \A i \in 1..Len(connects) : connects[i] = "connected" => i = Len(connects)
    /\ sleeps = SubSeq(<<5, 10>>, 1, IF Cardinality(FailedConnects) < 2
                                      THEN Cardinality(FailedConnects) ELSE 2)
    /\ dl_pc = "raised" <=> Cardinality(FailedConnects) = 3
    /\ dl_pc \in {"pool", "returned"} <=>
          (connects # <<>> /\ connects[Len(connects)] = "connected")

C21_Witness ==
    /\ connects = <<"failed", "failed", "connected">>
    /\ sleeps = <<5, 10>>
    /\ dl_pc = "returned"
    /\ dl_downloaded_files # <<>>

\* C22: at most 3 attempts per path, each with its own temp file; the temp
\* file of a failed attempt is gone before the next attempt starts or the
\* error is raised, so a path whose 3 attempts failed leaves none behind.
C22_FailedAttemptLeavesNoTemp ==
    \A k \in PathIds :
        /\ f_attempt[k] <= 2
        /\ \A att \in 0..(f_attempt[k] - 1) : TmpName(k, att) \notin dl_tmp
        /\ f_state[k] \in {"done_err", "collected_err"} =>
              /\ f_attempt[k] = 2
              /\ \A att \in 0..2 : TmpName(k, att) \notin dl_tmp

C22_Witness ==
    /\ dl_pc = "returned"
    /\ Len(dl_paths) = 2
    /\ f_state[1] = "collected_err"
    /\ f_state[2] = "collected_ok"
    /\ f_attempt[2] = 1
    /\ dl_tmp = {TmpName(2, 1)}

RECURSIVE SumFileSizes(_)
SumFileSizes(d) == IF d = <<>> THEN 0 ELSE Head(d).file_size + SumFileSizes(Tail(d))

\* C29: whatever the interleaving of the workers, the descriptors collected
\* hold each requested path at most once and total_storage_used is the sum
\* of file_size over exactly these descriptors.
C29_NoLostOrDoubleCount ==
    /\ \A i, j \in 1..Len(dl_downloaded_files) :
          i # j => dl_downloaded_files[i].original_path # dl_downloaded_files[j].original_path
    /\ \A i \in 1..Len(dl_downloaded_files) :
          dl_downloaded_files[i].file_size = dl_paths[dl_downloaded_files[i].original_path]
    /\ total_storage_used = SumFileSizes(dl_downloaded_files)

C29_Witness ==
    /\ dl_pc = "returned"
    /\ Len(dl_downloaded_files) = 2
    /\ dl_downloaded_files[1].original_path = 2
    /\ dl_downloaded_files[1].file_size # dl_downloaded_files[2].file_size
    /\ total_storage_used = 10

\* --------------------------------------------------- process_servers_logs

\* C23: the numbered parts carry 1, 2, ..., n in order of publication,
\* without gap or repeat, also after a failed flush; the last batch goes out
\* as part n+1 when a part was published before and as the single
\* unnumbered archive when none was.
C23_PartNumbering ==
    /\ pc # "returned" => part_number = Len(zip_files) + 1
    /\ Len(uploaded) = Len(zip_files)
    /\ \A i \in 1..Len(zip_files) :
          /\ uploaded[i].name = zip_files[i]
          /\ \/ zip_files[i] = PartName(i)
             \/ zip_files = <<SingleName>> /\ pc = "returned"
    /\ pc = "flush_upload" => PartName(Len(zip_files) + 1) \in DOMAIN tmp_zips
    /\ pc = "final_upload" =>
          IF zip_files = <<>> THEN SingleName \in DOMAIN tmp_zips
          ELSE PartName(Len(zip_files) + 1) \in DOMAIN tmp_zips

C23_Witness ==
    /\ pc = "returned"
    /\ failures # {}
    /\ zip_files = <<PartName(1), PartName(2)>>

\* the hosts for which process_single_server was called
Started == server_ok \cup server_failed

\* C25: the hosts are worked on one after the other: the call for a host is
\* made only when every earlier host is through its transfer, its budget
\* check and the flush it triggered, whether these succeeded or failed.
C25_HostsSequential ==
    /\ pc \in {"budget_check", "flush_upload"} =>
          /\ hostIdx \in server_ok
          /\ Started = 1..hostIdx
    /\ pc \notin {"budget_check", "flush_upload"} => Started = 1..(hostIdx - 1)

C25_Witness ==
    /\ pc = "flush_upload"
    /\ hostIdx = 3
    /\ Started = {1, 2, 3}
    /\ failures # {}

\* C26: whenever a server's files have been added to the batch,
\* current_storage_usage is the sum of the sizes of the files of the batch,
\* also for the first server added after a flush.
C26_CounterAccuracy ==
    pc = "loop" => current_storage_usage = SumSizes(all_downloaded_files)

\* C27: when process_servers_logs returns, every file a successful
\* process_single_server call returned is in exactly one uploaded archive,
\* the files of a server that triggered a failed flush included.
C27_NoFileLostOrDuplicated ==
    pc = "returned" =>
        \A f \in returned_files :
            Cardinality({i \in 1..Len(uploaded) : f \in uploaded[i].files}) = 1

\* ----------------------------------------------------------- get_ssh_auth

\* C24: with key material the parsers are called in the order RSA, Ed25519,
\* ECDSA, DSA; the first that parses gives the key and none is called after
\* it; the unsupported-key-format error is raised exactly when all four
\* were called and failed.
C24_KeyDetection ==
    /\ ky_tried = SubSeq(<<"RSA", "Ed25519", "ECDSA", "DSA">>, 1, Len(ky_tried))
    /\ \A j \in 1..Len(ky_tried) :
          ky_tried[j] \in ky_credentials.parses =>
              /\ j = Len(ky_tried)
              /\ ky_pc = "returned"
              /\ ky_result = [kind |-> "pkey", detail |-> ky_tried[j],
                              username |-> ky_credentials.username]
    /\ ky_result.kind = "pkey" =>
          /\ ky_tried # <<>>
          /\ ky_tried[Len(ky_tried)] \in ky_credentials.parses
    /\ (ky_pc = "raised" /\ ky_result.detail = "unsupported_key")
          <=> (/\ ky_tried = <<"RSA", "Ed25519", "ECDSA", "DSA">>
               /\ ky_credentials.parses = {})

C24_Witness ==
    /\ ky_pc = "returned"
    /\ ky_credentials.parses = {"ECDSA", "DSA"}
    /\ ky_tried = <<"RSA", "Ed25519", "ECDSA">>
    /\ ky_result.detail = "ECDSA"

\* ------------------------------ create_mailto_link / extract_json_from_email

\* the fields as create_mailto_link writes them: dates as yyyy-mm-dd texts,
\* line ends of the content as "\n"
OriginalFields ==
    { << <<"m", "a", "i", "l">>, approval_data.mail >>,
      << <<"c", "o", "n", "t", "e", "n", "t">>, normalize_newlines(approval_data.content) >>,
      << <<"s", "y", "s", "t", "e", "m">>, approval_data.system >>,
      << <<"f", "r", "o", "m", "_", "d", "a", "t", "e">>,
         strftime(approval_data.from_date, "%Y-%m-%d") >>,
      << <<"t", "o", "_", "d", "a", "t", "e">>, strftime(approval_data.to_date, "%Y-%m-%d") >> }

\* C28: extract_json_from_email, applied to a mail that contains the JSON
\* text create_mailto_link put in the draft, returns the dict of the
\* original mail, content, system, from_date and to_date, also for a content
\* with brace characters.
C28_RoundTrip ==
    ml_pc = "done" => ml_result = [kind |-> "dict", items |-> OriginalFields, status_code |-> 0]

\* --------------------------------------------------------- lambda_handler

\* C30: whatever the server map and whatever fails, lambda_handler
\* eventually returns OK or Error, and on the way no host sees more than 3
\* connection attempts and no path more than 3 download attempts per
\* connection.
C30_Termination ==
    /\ [](/\ Len(connects) <= 3
          /\ \A k \in 1..Len(f_attempt) : f_attempt[k] + 1 <= 3)
    /\ <>(hpc = "done" /\ result.status \in {"OK", "Error"})

C30_Witness ==
    /\ hpc = "done"
    /\ result.status = "OK"
    /\ Len(servers) = 2
    /\ server_failed = {1}
    /\ returned_files = {<<2, 2>>}
    /\ Len(uploaded) = 1

====
